---------------------------- MODULE Spec2Model ----------------------------
(***************************************************************************)
(* ira: the telemetry acquisition client (irsdk.c) reading the simulator's *)
(* shared-memory region while the simulator (the producer, another         *)
(* process) writes it.                                                     *)
(*                                                                         *)
(* The reader is irsdk_startup / irsdk_shutdown / irsdk_get_new_data /     *)
(* irsdk_wait_for_data, one action per statement that touches the shared   *)
(* region: every read of the region is a step of its own, so producer      *)
(* writes interleave with a poll at every read, as they do between two     *)
(* processes sharing memory without a lock.                                *)
(*                                                                         *)
(* A frame is BufLen words; the frame of tick T holds T in every word, so  *)
(* a copy that mixes two frames is visible in its contents.                *)
(***************************************************************************)
EXTENDS Integers, Sequences, FiniteSets

(***************************************************************************)
(* The session loop (main.c) drives the reader: it opens the region, waits *)
(* for frames, resolves the telemetry offsets through the variable         *)
(* directory (irsdk_var_name_to_offset over the variable headers in the    *)
(* shared region) and tracks the connection state.  The free client of     *)
(* Spec calls the reader's functions in any order; SpecMain is main.c.     *)
(***************************************************************************)

\* ---- bounds of the model
NumBuf == 2       \* header.num_buf: buffer descriptors in the ring
BufLen == 2       \* header.buf_len, in words
MaxTick == 2      \* the producer stops publishing at this tick until it restarts
ClockStep == 15   \* seconds the clock advances in one step
MaxClock == 2     \* clock steps in a run
MaxVars == 3      \* header.num_vars, at most, in the tables that are looked up

\* ---- program constants
INT_MAX == 2147483647     \* the marker's "unknown" value
IRSDK_ST_CONNECTED == 1   \* status bit 0
MaxTries == 2             \* for (count = 0; count < 2; count++)
TIMEOUT_SECONDS == 30     \* the liveness window of irsdk_is_connected
IRSDK_MAX_STRING == 32    \* char name[IRSDK_MAX_STRING]

Slots == 0 .. (NumBuf - 1)
Words == 1 .. BufLen
Ticks == 0 .. MaxTick

VARIABLES
    \* the shared region (written by the producer only)
    status,               \* header.status
    tick,                 \* header.var_buf[i].tick_count
    buf,                  \* the data buffer of slot i, word by word
    buf_len,              \* header.buf_len, in words
    varHeaders,           \* the irsdk_VarHeader array (num_vars = its length)
    \* the producer's own position
    pcount,               \* the tick of the frame being (or last) published
    pw,                   \* words of that frame written so far
    ptw,                  \* whether its tick_count has been written
    \* irsdk.c: file-scope state
    g_mem_map_file,       \* handle held
    g_shared_mem,         \* view mapped
    g_header,             \* header pointer non-NULL
    g_data_valid_event,   \* handle held
    g_last_tick_count,
    g_is_initialized,
    g_last_valid_time,
    now,                  \* time(NULL), in seconds
    \* main.c: the session loop
    g_running,            \* cleared by the SIGINT handler
    mpc,                  \* where main is; "free" for the free client
    current_state,
    offsets,              \* TelemetryOffsets
    logger,               \* logger != NULL
    mdata,                \* main's data != NULL (the frame buffer is allocated)
    data_size,            \* the size data was allocated with, in words
    \* the session metadata and a query of it
    yaml,                 \* the session info string
    ydoc,                 \* the lines the producer rendered it from
    ypath,                \* the path queried
    ycall,                \* the function called: "none" | "parse" | "string" | ...
    yout,                 \* what it returned and stored
    \* a lookup in the variable directory: its argument and what it returned
    \* (-2: not called)
    qname, ridx, roff,
    \* the reader's position and locals
    pc,                   \* where irsdk_get_new_data is
    wpc,                  \* where irsdk_wait_for_data is
    latest, idx, count, cur_tick, cidx,
    clen,                 \* the length memcpy was called with
    useData,              \* data != NULL in the current (or last) call
    data,                 \* the caller's destination buffer
    \* what the last calls returned and did (observations, not program state)
    ret,                  \* irsdk_get_new_data: "none" | "true" | "false"
    branch,               \* the branch it returned from
    wret,                 \* irsdk_wait_for_data: "none" | "true" | "false"
    sret,                 \* irsdk_startup: "none" | "true" | "false"
    wpolls,               \* polls made by the wait call
    slept,                \* the wait call slept for timeout_ms
    woke,                 \* how the block ended: "none" | "signal" | "timeout"
    quiet,                \* no producer step since the poll began
    hiRep,                \* highest tick reported since the producer (re)started
    lastTrue              \* tick the last true poll recorded; -1 once a poll has
                          \* since taken the disconnect or the regression branch

shared == <<status, tick, buf, buf_len>>
prod == <<pcount, pw, ptw>>
handles == <<g_mem_map_file, g_shared_mem, g_header, g_data_valid_event,
             g_is_initialized>>
locals == <<latest, idx, count, cur_tick, cidx, clen>>
waitobs == <<wret, wpolls, slept, woke>>
lookup == <<qname, ridx, roff>>
metadata == <<yaml, ydoc, ypath, ycall, yout>>
\* main's locals but mpc
sessionRest == <<varHeaders, now, g_running, current_state, offsets, logger,
                 mdata, data_size, lookup, metadata>>
session == <<mpc, sessionRest>>
\* all of irsdk.c's state but what irsdk_shutdown assigns
readerRest == <<g_last_valid_time, pc, wpc, locals, useData, data, ret, branch,
                waitobs, quiet, hiRep, lastTrue>>
reader == <<handles, g_last_tick_count, sret, readerRest>>
vars == <<status, tick, buf, buf_len, varHeaders, pcount, pw, ptw,
          g_mem_map_file, g_shared_mem, g_header, g_data_valid_event,
          g_last_tick_count, g_is_initialized, g_last_valid_time, now,
          g_running, mpc, current_state, offsets, logger, mdata, data_size,
          qname, ridx, roff, yaml, ydoc, ypath, ycall, yout,
          pc, wpc, latest, idx, count, cur_tick, cidx, clen, useData, data,
          ret, branch, wret, sret, wpolls, slept, woke, quiet, hiRep,
          lastTrue>>

Str(b) == IF b THEN "true" ELSE "false"

\* The frame the producer publishes for tick t.
Frame(t) == [k \in Words |-> t]

\* The slot the producer writes tick t into (the buffers rotate).
SlotOf(t) == (t - 1) % NumBuf

-----------------------------------------------------------------------------
\* The variable directory.  A C string is the sequence of its characters (the
\* terminating NUL is implicit).  A char name[IRSDK_MAX_STRING] field holds
\* IRSDK_MAX_STRING characters: those of the name it stores (at most
\* IRSDK_MAX_STRING of them), then NULs, so no terminator when the name fills
\* the field.  A const char * is NULL or points to a string.

NUL == "NUL"
NULL == << >>
Ptr(s) == <<s>>

\* Character k of a string in memory, and of the name field storing f.
CharAt(s, k) == IF k <= Len(s) THEN s[k] ELSE NUL

\* A variable header (the fields the directory reads): the name its name
\* field stores, and its offset.
VarHeader(s, o) == [name |-> s, offset |-> o]

\* The string of n characters c.
Rep(c, n) == [k \in 1 .. n |-> c]

\* The variables main.c reads, in the order init_telemetry_offsets looks them up.
Speed == <<"S", "p", "e", "e", "d">>
RPM == <<"R", "P", "M">>
Gear == <<"G", "e", "a", "r">>
Throttle == <<"T", "h", "r", "o", "t", "t", "l", "e">>
Brake == <<"B", "r", "a", "k", "e">>
Clutch == <<"C", "l", "u", "t", "c", "h">>
Lap == <<"L", "a", "p">>
LapDistPct == <<"L", "a", "p", "D", "i", "s", "t", "P", "c", "t">>
SessionTime == <<"S", "e", "s", "s", "i", "o", "n", "T", "i", "m", "e">>
FuelLevel == <<"F", "u", "e", "l", "L", "e", "v", "e", "l">>
IsOnTrack == <<"I", "s", "O", "n", "T", "r", "a", "c", "k">>

RequiredVars == {Speed, RPM, Gear}
OptionalVars == {Throttle, Brake, Clutch, Lap, LapDistPct, SessionTime,
                 FuelLevel, IsOnTrack}
TelemetryVars == RequiredVars \cup OptionalVars

\* strncmp(s, f, n) from character k on: 0 when s and the field f agree up to
\* the first NUL or up to n characters, nonzero otherwise.
RECURSIVE strncmp_from(_, _, _, _)
strncmp_from(s, f, k, n) ==
    IF k > n
    THEN 0
    ELSE LET a == CharAt(s, k)
             b == CharAt(f, k)
         IN  IF a # b THEN 1
             ELSE IF a = NUL THEN 0
             ELSE strncmp_from(s, f, k + 1, n)

strncmp(s, f, n) == strncmp_from(s, f, 1, n)

\* const irsdk_VarHeader *irsdk_get_var_header(int index): whether it returns
\* a header (and not NULL).
irsdk_get_var_header(index) ==
    /\ g_is_initialized /\ g_header
    /\ index >= 0 /\ index < Len(varHeaders)

\* The lookup loop matching only a name stored with its terminator.
RECURSIVE var_scan_terminated(_, _)
var_scan_terminated(s, i) ==
    IF ~(i < Len(varHeaders))
    THEN -1
    ELSE IF /\ irsdk_get_var_header(i)
            /\ strncmp(s, varHeaders[i + 1].name, IRSDK_MAX_STRING) = 0
            /\ Len(s) < IRSDK_MAX_STRING
         THEN i
         ELSE var_scan_terminated(s, i + 1)

\* for (int i = 0; i < g_header->num_vars; i++): the first index from i on
\* whose name matches, -1 if none.
RECURSIVE var_scan(_, _)
var_scan(s, i) ==
    IF ~(i < Len(varHeaders))
    THEN -1
    ELSE IF /\ irsdk_get_var_header(i)
            /\ strncmp(s, varHeaders[i + 1].name, IRSDK_MAX_STRING) = 0
         THEN i
         ELSE var_scan(s, i + 1)

irsdk_var_name_to_index(name) ==
    IF name = NULL \/ ~g_is_initialized \/ ~g_header
    THEN -1
    ELSE var_scan(name[1], 0)

\* The same loop, returning var->offset of the header it stops at.
irsdk_var_name_to_offset(name) ==
    IF name = NULL \/ ~g_is_initialized \/ ~g_header
    THEN -1
    ELSE LET i == var_scan(name[1], 0)
         IN  IF i = -1 THEN -1 ELSE varHeaders[i + 1].offset

\* TelemetryOffsets offsets = {0}
ZeroOffsets ==
    [speed |-> 0, rpm |-> 0, gear |-> 0, throttle |-> 0, brake |-> 0,
     clutch |-> 0, lap |-> 0, lap_dist_pct |-> 0, session_time |-> 0,
     fuel_level |-> 0, is_on_track |-> 0]

\* init_telemetry_offsets: the offsets it stores ...
resolve_offsets ==
    [speed |-> irsdk_var_name_to_offset(Ptr(Speed)),
     rpm |-> irsdk_var_name_to_offset(Ptr(RPM)),
     gear |-> irsdk_var_name_to_offset(Ptr(Gear)),
     throttle |-> irsdk_var_name_to_offset(Ptr(Throttle)),
     brake |-> irsdk_var_name_to_offset(Ptr(Brake)),
     clutch |-> irsdk_var_name_to_offset(Ptr(Clutch)),
     lap |-> irsdk_var_name_to_offset(Ptr(Lap)),
     lap_dist_pct |-> irsdk_var_name_to_offset(Ptr(LapDistPct)),
     session_time |-> irsdk_var_name_to_offset(Ptr(SessionTime)),
     fuel_level |-> irsdk_var_name_to_offset(Ptr(FuelLevel)),
     is_on_track |-> irsdk_var_name_to_offset(Ptr(IsOnTrack))]

\* ... with the essential-variables check extended to throttle.
init_telemetry_offsets_Throttle(off) ==
    ~(off.speed < 0 \/ off.rpm < 0 \/ off.gear < 0 \/ off.throttle < 0)

\* ... and what it returns: whether the essential variables were found.
init_telemetry_offsets(off) ==
    ~(off.speed < 0 \/ off.rpm < 0 \/ off.gear < 0)

\* The variable header tables the producer publishes in a session: none
\* before it has loaded; while it is loading, the optional variables and all
\* required ones but Gear; then the required variables only (in another
\* order, so at other offsets).
NoVars == << >>
LoadingTable ==
    <<VarHeader(Speed, 0), VarHeader(RPM, 4), VarHeader(Throttle, 8),
      VarHeader(Brake, 12), VarHeader(Clutch, 16), VarHeader(Lap, 20),
      VarHeader(LapDistPct, 24), VarHeader(SessionTime, 28),
      VarHeader(FuelLevel, 36), VarHeader(IsOnTrack, 40)>>
RequiredTable == <<VarHeader(Gear, 0), VarHeader(RPM, 4), VarHeader(Speed, 8)>>
SessionTables == {LoadingTable, RequiredTable}

\* ira_state
STATE_WAITING == "STATE_WAITING"
STATE_CONNECTED == "STATE_CONNECTED"
STATE_IN_SESSION == "STATE_IN_SESSION"

\* The session loop's state before main reaches it, and the clock: the program
\* starts at least TIMEOUT_SECONDS after the epoch, so that g_last_valid_time
\* = 0 is stale from the start.
InitSession ==
    /\ g_last_valid_time = 0
    /\ now = TIMEOUT_SECONDS
    /\ g_running = TRUE
    /\ current_state = STATE_WAITING
    /\ offsets = ZeroOffsets
    /\ logger = FALSE
    /\ mdata = FALSE
    /\ data_size = 0
    /\ qname = NULL /\ ridx = -2 /\ roff = -2

\* No session metadata and no query of it.
InitMetadata ==
    /\ yaml = << >> /\ ydoc = << >>
    /\ ypath = NULL
    /\ ycall = "none"
    /\ yout = << >>

Init ==
    /\ InitSession
    /\ InitMetadata
    /\ mpc = "free"
    /\ varHeaders = NoVars
    /\ status \in {0, IRSDK_ST_CONNECTED}
    /\ tick = [i \in Slots |-> 0]
    /\ buf = [i \in Slots |-> Frame(0)]
    /\ buf_len = BufLen
    /\ pcount = 0 /\ pw = BufLen /\ ptw = TRUE
    /\ g_mem_map_file = FALSE /\ g_shared_mem = FALSE /\ g_header = FALSE
    /\ g_data_valid_event = FALSE
    /\ g_last_tick_count = INT_MAX
    /\ g_is_initialized = FALSE
    /\ pc = "idle" /\ wpc = "none"
    /\ latest = 0 /\ idx = 0 /\ count = 0 /\ cur_tick = 0 /\ cidx = 0
    /\ clen = 0
    /\ useData = FALSE
    /\ data = Frame(0)
    /\ ret = "none" /\ branch = "none" /\ wret = "none" /\ sret = "none"
    /\ wpolls = 0 /\ slept = FALSE /\ woke = "none"
    /\ quiet = TRUE
    /\ hiRep = 0
    /\ lastTrue = -1

-----------------------------------------------------------------------------
\* The producer.  Every write is one step.

\* The model follows the producer and the clock while the program runs.
Alive == mpc # "exit"

\* A producer step during a poll ends the poll's quiescence.
Disturb == quiet' = IF pc = "idle" THEN quiet ELSE FALSE

ProducerIdle == pw = BufLen /\ ptw

ProducerBegin ==
    /\ Alive
    /\ ProducerIdle
    /\ status = IRSDK_ST_CONNECTED
    /\ pcount < MaxTick
    /\ pcount' = pcount + 1
    /\ pw' = 0 /\ ptw' = FALSE
    /\ UNCHANGED <<shared, handles, g_last_tick_count, pc, wpc, locals,
                   useData, data, ret, branch, sret, waitobs,
                   quiet, hiRep, lastTrue, g_last_valid_time>>
    /\ UNCHANGED session

ProducerWriteWord ==
    /\ Alive
    /\ pw < BufLen
    /\ buf' = [buf EXCEPT ![SlotOf(pcount)][pw + 1] = pcount]
    /\ pw' = pw + 1
    /\ Disturb
    /\ UNCHANGED <<buf_len, status, tick, pcount, ptw, handles, g_last_tick_count, pc,
                   wpc, locals, useData, data, ret, branch, sret,
                   waitobs, hiRep, lastTrue, g_last_valid_time>>
    /\ UNCHANGED session

ProducerWriteTick ==
    /\ Alive
    /\ ~ptw
    /\ tick' = [tick EXCEPT ![SlotOf(pcount)] = pcount]
    /\ ptw' = TRUE
    /\ Disturb
    /\ UNCHANGED <<buf_len, status, buf, pcount, pw, handles, g_last_tick_count, pc,
                   wpc, locals, useData, data, ret, branch, sret,
                   waitobs, hiRep, lastTrue, g_last_valid_time>>
    /\ UNCHANGED session

ProducerConnect ==
    /\ Alive
    /\ status = 0
    /\ status' = IRSDK_ST_CONNECTED
    /\ Disturb
    /\ UNCHANGED <<buf_len, tick, buf, prod, handles, g_last_tick_count, pc, wpc,
                   locals, useData, data, ret, branch, sret, waitobs,
                   hiRep, lastTrue, g_last_valid_time>>
    /\ UNCHANGED session

ProducerDisconnect ==
    /\ Alive
    /\ status = IRSDK_ST_CONNECTED
    /\ status' = 0
    /\ Disturb
    /\ UNCHANGED <<buf_len, tick, buf, prod, handles, g_last_tick_count, pc, wpc,
                   locals, useData, data, ret, branch, sret, waitobs,
                   hiRep, lastTrue, g_last_valid_time>>
    /\ UNCHANGED session

\* The producer restarts: the region's tick counts and buffers start over.
ProducerRestart ==
    /\ Alive
    /\ ProducerIdle
    /\ pcount > 0
    /\ tick' = [i \in Slots |-> 0]
    /\ buf' = [i \in Slots |-> Frame(0)]
    /\ pcount' = 0
    /\ hiRep' = 0
    /\ Disturb
    /\ UNCHANGED <<buf_len, status, pw, ptw, handles, g_last_tick_count, pc, wpc,
                   locals, useData, data, ret, branch, sret, waitobs,
                   lastTrue, g_last_valid_time>>
    /\ UNCHANGED session

-----------------------------------------------------------------------------
\* irsdk_startup.  ok1, ok2, ok3: whether OpenFileMappingA, MapViewOfFile and
\* OpenEventA would succeed if called now.

startup_map(ok1) == IF ~g_mem_map_file THEN ok1 ELSE TRUE

startup_mem(ok1, ok2) ==
    IF startup_map(ok1)
    THEN (IF ~g_shared_mem THEN ok2 ELSE TRUE)
    ELSE g_shared_mem

startup_event(ok1, ok2, ok3) ==
    IF startup_map(ok1) /\ startup_mem(ok1, ok2)
    THEN (IF ~g_data_valid_event THEN ok3 ELSE TRUE)
    ELSE g_data_valid_event

\* Whether the call made any of its three attempts (each resets the marker).
startup_attempted(ok1, ok2) ==
    \/ ~g_mem_map_file
    \/ startup_map(ok1) /\ ~g_shared_mem
    \/ startup_map(ok1) /\ startup_mem(ok1, ok2) /\ ~g_data_valid_event

\* irsdk_startup setting the ready flag once the view is mapped, before the
\* event is known to be open.
irsdk_startup_early(ok1, ok2, ok3) ==
    /\ g_mem_map_file' = startup_map(ok1)
    /\ g_shared_mem' = startup_mem(ok1, ok2)
    /\ g_header' = startup_mem(ok1, ok2)
    /\ g_data_valid_event' = startup_event(ok1, ok2, ok3)
    /\ g_last_tick_count' =
          IF startup_attempted(ok1, ok2) THEN INT_MAX ELSE g_last_tick_count
    /\ g_is_initialized' = (startup_map(ok1) /\ startup_mem(ok1, ok2))
    /\ sret' = Str(startup_map(ok1) /\ startup_mem(ok1, ok2)
                      /\ startup_event(ok1, ok2, ok3))

irsdk_startup(ok1, ok2, ok3) ==
    /\ g_mem_map_file' = startup_map(ok1)
    /\ g_shared_mem' = startup_mem(ok1, ok2)
    /\ g_header' = startup_mem(ok1, ok2)
    /\ g_data_valid_event' = startup_event(ok1, ok2, ok3)
    /\ g_last_tick_count' =
          IF startup_attempted(ok1, ok2) THEN INT_MAX ELSE g_last_tick_count
    /\ g_is_initialized' =
          (startup_map(ok1) /\ startup_mem(ok1, ok2)
              /\ startup_event(ok1, ok2, ok3))
    /\ sret' = Str(g_is_initialized')

\* if (g_is_initialized || irsdk_startup())
\* The outcomes the operating system can give the calls irsdk_startup makes:
\* a call that is not made has no outcome to choose.
OsOutcomes(held) == IF held THEN {TRUE} ELSE BOOLEAN

CallStartup ==
    \E ok1 \in OsOutcomes(g_mem_map_file) :
      \E ok2 \in (IF ok1 THEN OsOutcomes(g_shared_mem) ELSE {FALSE}) :
        \E ok3 \in (IF ok2 THEN OsOutcomes(g_data_valid_event) ELSE {FALSE}) :
          irsdk_startup(ok1, ok2, ok3)

EnsureStarted ==
    IF g_is_initialized
    THEN UNCHANGED <<handles, g_last_tick_count, sret>>
    ELSE CallStartup

Idle == pc = "idle" /\ wpc = "none"

\* A new call by the session loop: what the previous calls returned is gone.
\* data is the destination buffer of the call: irsdk.c only ever writes it, so
\* what it held before the call decides nothing, and it starts each call zeroed.
NewCall ==
    /\ ret' = "none" /\ branch' = "none"
    /\ wret' = "none" /\ wpolls' = 0 /\ slept' = FALSE
    /\ data' = Frame(0)

\* The client calls irsdk_startup().
Startup ==
    /\ Idle /\ mpc = "free"
    /\ CallStartup
    /\ NewCall
    /\ UNCHANGED <<shared, prod, pc, wpc, locals, useData, woke, quiet, hiRep,
                   lastTrue, g_last_valid_time>>
    /\ UNCHANGED session

\* irsdk_shutdown leaving the ready flag as it is.
irsdk_shutdown_KeepFlag ==
    /\ g_data_valid_event' = FALSE
    /\ g_shared_mem' = FALSE
    /\ g_header' = FALSE
    /\ g_mem_map_file' = FALSE
    /\ g_is_initialized' = g_is_initialized
    /\ g_last_tick_count' = INT_MAX
    /\ sret' = "none"

irsdk_shutdown ==
    /\ g_data_valid_event' = FALSE
    /\ g_shared_mem' = FALSE
    /\ g_header' = FALSE
    /\ g_mem_map_file' = FALSE
    /\ g_is_initialized' = FALSE
    /\ g_last_tick_count' = INT_MAX
    /\ sret' = "none"

\* The client calls irsdk_shutdown().
Shutdown ==
    /\ Idle /\ mpc = "free"
    /\ irsdk_shutdown
    /\ NewCall
    /\ UNCHANGED <<shared, prod, pc, wpc, locals, useData, woke, quiet, hiRep,
                   lastTrue, g_last_valid_time>>
    /\ UNCHANGED session

-----------------------------------------------------------------------------
\* irsdk_wait_for_data returning after its first poll, whatever it found.
WaitAfterPoll_NoSecond(r) ==
    IF wpc = "none"
    THEN UNCHANGED <<wpc, wret, slept, woke>>
    ELSE /\ wpc' = "none"
         /\ wret' = Str(r)
         /\ UNCHANGED <<slept, woke>>

\* The timeout_ms values a caller passes: 0 and a positive one from the free
\* client, a positive one from main.c (1000 and 16).  The code reads
\* timeout_ms in WaitForSingleObject (whose result it ignores) and in
\* "if (timeout_ms > 0) Sleep(timeout_ms)", so the value is drawn where it
\* decides something.
Timeouts == IF mpc = "free" THEN {0, 1} ELSE {1}

\* irsdk_wait_for_data, after one of its two polls returned r.
\* poll 1 true: return true.  poll 1 false: WaitForSingleObject.
\* poll 2 true: return true.  poll 2 false: control leaves the if block and
\* reaches "Sleep on error": Sleep(timeout_ms) when timeout_ms > 0, return false.
WaitAfterPoll(r) ==
    CASE wpc = "none" ->
            UNCHANGED <<wpc, wret, slept, woke>>
      [] wpc = "poll1" ->
            /\ wpc' = IF r THEN "none" ELSE "block"
            /\ wret' = IF r THEN "true" ELSE "none"
            /\ UNCHANGED <<slept, woke>>
      [] wpc = "poll2" ->
            /\ wpc' = "none"
            /\ wret' = Str(r)
            /\ \E timeout_ms \in Timeouts : slept' = (~r /\ timeout_ms > 0)
            /\ woke' = "none"

\* irsdk_get_new_data returns r from branch br.
PollReturn(r, br) ==
    /\ pc' = "idle"
    /\ ret' = Str(r)
    /\ branch' = br
    /\ latest' = 0 /\ idx' = 0 /\ count' = 0 /\ cur_tick' = 0 /\ cidx' = 0
    /\ clen' = 0
    /\ useData' = IF wpc = "poll1" /\ ~r THEN useData ELSE FALSE
    /\ quiet' = TRUE
    /\ WaitAfterPoll(r)

\* The client calls irsdk_get_new_data(data); d: data != NULL.
PollCall ==
    /\ Idle /\ mpc = "free"
    /\ EnsureStarted
    /\ wret' = "none" /\ wpolls' = 0 /\ slept' = FALSE
    /\ IF g_is_initialized'
       THEN /\ \E d \in BOOLEAN : useData' = d
            /\ pc' = "status"
            /\ ret' = "none" /\ branch' = "none"
       ELSE /\ useData' = FALSE
            /\ pc' = "idle"
            /\ ret' = "false" /\ branch' = "notopen"
    /\ data' = Frame(0)
    /\ UNCHANGED <<shared, prod, wpc, locals, woke, quiet, hiRep, lastTrue,
                   g_last_valid_time>>
    /\ UNCHANGED session

\* The poll going on to the scan whatever the connected bit is.
PollStatus_Ignore ==
    /\ pc = "status"
    /\ pc' = IF 1 < NumBuf THEN "scan" ELSE "cmp"
    /\ latest' = 0 /\ idx' = 1
    /\ UNCHANGED <<g_last_tick_count, count, cur_tick, cidx, clen, ret,
                   branch, useData, quiet, wpc, wret, slept, woke,
                   lastTrue, g_last_valid_time>>
    /\ UNCHANGED <<shared, prod, handles, data, sret, wpolls, hiRep>>
    /\ UNCHANGED session

\* The disconnect branch without g_last_tick_count = INT_MAX.
PollStatus_NoReset ==
    /\ pc = "status"
    /\ IF status # IRSDK_ST_CONNECTED
       THEN /\ UNCHANGED <<g_last_tick_count, g_last_valid_time>>
            /\ lastTrue' = -1
            /\ PollReturn(FALSE, "disconnect")
       ELSE /\ pc' = IF 1 < NumBuf THEN "scan" ELSE "cmp"
            /\ latest' = 0 /\ idx' = 1
            /\ UNCHANGED <<g_last_tick_count, count, cur_tick, cidx, clen, ret,
                           branch, useData, quiet, wpc, wret, slept, woke,
                           lastTrue, g_last_valid_time>>
    /\ UNCHANGED <<shared, prod, handles, data, sret, wpolls, hiRep>>
    /\ UNCHANGED session

\* if (!(g_header->status & IRSDK_ST_CONNECTED))
PollStatus ==
    /\ pc = "status"
    /\ IF status # IRSDK_ST_CONNECTED
       THEN /\ g_last_tick_count' = INT_MAX
            /\ lastTrue' = -1
            /\ UNCHANGED g_last_valid_time
            /\ PollReturn(FALSE, "disconnect")
       ELSE /\ pc' = IF 1 < NumBuf THEN "scan" ELSE "cmp"
            /\ latest' = 0 /\ idx' = 1
            /\ UNCHANGED <<g_last_tick_count, count, cur_tick, cidx, clen, ret,
                           branch, useData, quiet, wpc, wret, slept, woke,
                           lastTrue, g_last_valid_time>>
    /\ UNCHANGED <<shared, prod, handles, data, sret, wpolls, hiRep>>
    /\ UNCHANGED session

\* The scan comparing with <= : the last of several equal ticks wins.
ScanStep_Le(l, i) == IF tick[l] <= tick[i] THEN i ELSE l

\* One iteration of the scan for the latest buffer.
ScanStep(l, i) == IF tick[l] < tick[i] THEN i ELSE l

PollScan ==
    /\ pc = "scan"
    /\ latest' = ScanStep(latest, idx)
    /\ idx' = idx + 1
    /\ pc' = IF idx + 1 < NumBuf THEN "scan" ELSE "cmp"
    /\ UNCHANGED <<shared, prod, handles, g_last_tick_count, wpc, count,
                   cur_tick, cidx, clen, useData, data, ret, branch, sret,
                   waitobs, quiet, hiRep, lastTrue, g_last_valid_time>>
    /\ UNCHANGED session

\* The comparison with <= : a tick equal to the marker counts as new.
PollCompare_Le ==
    /\ pc = "cmp"
    /\ pc' = IF g_last_tick_count <= tick[latest]
             THEN (IF useData THEN "readtick" ELSE "accept")
             ELSE "regress"
    /\ count' = 0
    /\ UNCHANGED <<shared, prod, handles, g_last_tick_count, wpc, latest, idx,
                   cur_tick, cidx, clen, useData, data, ret, branch, sret,
                   waitobs, quiet, hiRep, lastTrue, g_last_valid_time>>
    /\ UNCHANGED session

\* The comparison taking the marker INT_MAX for "nothing seen yet": the first
\* poll after a start reports the latest frame.
PollCompare_Unknown ==
    /\ pc = "cmp"
    /\ pc' = IF g_last_tick_count = INT_MAX \/ g_last_tick_count < tick[latest]
             THEN (IF useData THEN "readtick" ELSE "accept")
             ELSE "regress"
    /\ count' = 0
    /\ UNCHANGED <<shared, prod, handles, g_last_tick_count, wpc, latest, idx,
                   cur_tick, cidx, clen, useData, data, ret, branch, sret,
                   waitobs, quiet, hiRep, lastTrue, g_last_valid_time>>
    /\ UNCHANGED session

\* if (g_last_tick_count < g_header->var_buf[latest].tick_count) { if (data)
PollCompare ==
    /\ pc = "cmp"
    /\ pc' = IF g_last_tick_count < tick[latest]
             THEN (IF useData THEN "readtick" ELSE "accept")
             ELSE "regress"
    /\ count' = 0
    /\ UNCHANGED <<shared, prod, handles, g_last_tick_count, wpc, latest, idx,
                   cur_tick, cidx, clen, useData, data, ret, branch, sret,
                   waitobs, quiet, hiRep, lastTrue, g_last_valid_time>>
    /\ UNCHANGED session

\* int cur_tick = g_header->var_buf[latest].tick_count;
PollReadTick ==
    /\ pc = "readtick"
    /\ cur_tick' = tick[latest]
    /\ cidx' = 1
    /\ clen' = clen
    /\ pc' = "copy"
    /\ UNCHANGED <<shared, prod, handles, g_last_tick_count, wpc, latest, idx,
                   count, useData, data, ret, branch, sret, waitobs,
                   quiet, hiRep, lastTrue, g_last_valid_time>>
    /\ UNCHANGED session

\* memcpy with its first two arguments exchanged: the copy goes from data into
\* the region's buffer.
PollCopy_Reverse ==
    /\ pc = "copy"
    /\ clen' = IF cidx = 1 THEN buf_len ELSE clen
    /\ buf' = [buf EXCEPT ![latest][cidx] = data[cidx]]
    /\ cidx' = IF cidx < clen' THEN cidx + 1 ELSE cidx
    /\ pc' = IF cidx < clen' THEN "copy" ELSE "verify"
    /\ UNCHANGED <<status, tick, buf_len, prod, handles, g_last_tick_count,
                   latest, idx, count, cur_tick, useData, data, ret, branch,
                   sret, waitobs, quiet, hiRep, lastTrue, g_last_valid_time,
                   wpc, session>>

\* The words the destination buffer of the call has room for: what main
\* allocated; the free client's buffer holds a frame of the longest length.
DataSize == IF mpc = "free" THEN BufLen ELSE data_size

\* memcpy(data, g_shared_mem + buf_offset, g_header->buf_len), one word per
\* step; the length is read as the copy begins.  A word written past the end
\* of the destination is undefined behaviour: it lands in the memory after the
\* buffer (data[k] for k > DataSize stands for that memory) or the process
\* faults.
PollCopy ==
    /\ pc = "copy"
    /\ \E fault \in (IF cidx > DataSize THEN BOOLEAN ELSE {FALSE}) :
          IF fault
          THEN /\ mpc' = "exit"
               /\ pc' = "idle" /\ wpc' = "none"
               /\ UNCHANGED <<sessionRest, cidx, clen, data>>
          ELSE /\ clen' = IF cidx = 1 THEN buf_len ELSE clen
               /\ data' = [data EXCEPT ![cidx] = buf[latest][cidx]]
               /\ cidx' = IF cidx < clen' THEN cidx + 1 ELSE cidx
               /\ pc' = IF cidx < clen' THEN "copy" ELSE "verify"
               /\ UNCHANGED <<wpc, session>>
    /\ UNCHANGED <<shared, prod, handles, g_last_tick_count, latest, idx,
                   count, cur_tick, useData, ret, branch, sret,
                   waitobs, quiet, hiRep, lastTrue, g_last_valid_time>>

\* The verify step recording the tick it re-read when both attempts failed.
PollVerify_Record ==
    /\ pc = "verify"
    /\ IF cur_tick = tick[latest]
       THEN /\ g_last_tick_count' = cur_tick
            /\ g_last_valid_time' = now
            /\ hiRep' = IF cur_tick > hiRep THEN cur_tick ELSE hiRep
            /\ lastTrue' = cur_tick
            /\ PollReturn(TRUE, "accept")
       ELSE IF count + 1 < MaxTries
            THEN /\ count' = count + 1
                 /\ pc' = "readtick"
                 /\ UNCHANGED <<g_last_tick_count, hiRep, lastTrue,
                                g_last_valid_time, latest,
                                idx, cur_tick, cidx, clen, ret, branch, useData,
                                quiet, wpc, wret, slept, woke>>
            ELSE /\ PollReturn(FALSE, "torn")
                 /\ g_last_tick_count' = tick[latest]
                 /\ UNCHANGED <<hiRep, lastTrue, g_last_valid_time>>
    /\ UNCHANGED <<shared, prod, handles, data, sret, wpolls>>
    /\ UNCHANGED session

\* if (cur_tick == g_header->var_buf[latest].tick_count) ... count++ ...
PollVerify ==
    /\ pc = "verify"
    /\ IF cur_tick = tick[latest]
       THEN /\ g_last_tick_count' = cur_tick
            /\ g_last_valid_time' = now
            /\ hiRep' = IF cur_tick > hiRep THEN cur_tick ELSE hiRep
            /\ lastTrue' = cur_tick
            /\ PollReturn(TRUE, "accept")
       ELSE IF count + 1 < MaxTries
            THEN /\ count' = count + 1
                 /\ pc' = "readtick"
                 /\ UNCHANGED <<g_last_tick_count, hiRep, lastTrue,
                                g_last_valid_time, latest,
                                idx, cur_tick, cidx, clen, ret, branch, useData,
                                quiet, wpc, wret, slept, woke>>
            ELSE /\ PollReturn(FALSE, "torn")
                 /\ UNCHANGED <<g_last_tick_count, hiRep, lastTrue, g_last_valid_time>>
    /\ UNCHANGED <<shared, prod, handles, data, sret, wpolls>>
    /\ UNCHANGED session

\* data == NULL: g_last_tick_count = g_header->var_buf[latest].tick_count
PollAccept ==
    /\ pc = "accept"
    /\ g_last_tick_count' = tick[latest]
    /\ g_last_valid_time' = now
    /\ hiRep' = IF tick[latest] > hiRep THEN tick[latest] ELSE hiRep
    /\ lastTrue' = tick[latest]
    /\ PollReturn(TRUE, "accept_null")
    /\ UNCHANGED <<shared, prod, handles, data, sret, wpolls>>
    /\ UNCHANGED session

\* else if (g_last_tick_count > g_header->var_buf[latest].tick_count)
PollRegressCheck ==
    /\ pc = "regress"
    /\ IF g_last_tick_count > tick[latest]
       THEN /\ pc' = "regress_set"
            /\ UNCHANGED <<latest, idx, count, cur_tick, cidx, clen, ret, branch,
                           useData, quiet, wpc, wret, slept, woke>>
       ELSE PollReturn(FALSE, "same")
    /\ UNCHANGED <<shared, prod, handles, g_last_tick_count, data, sret,
                   wpolls, hiRep, lastTrue, g_last_valid_time>>
    /\ UNCHANGED session

\* g_last_tick_count = g_header->var_buf[latest].tick_count; return false;
\* The branch is recorded as "regress" when the marker held a tick, as
\* "regress_unknown" when it was INT_MAX.
PollRegressSet ==
    /\ pc = "regress_set"
    /\ g_last_tick_count' = tick[latest]
    /\ lastTrue' = -1
    /\ UNCHANGED g_last_valid_time
    /\ PollReturn(FALSE, IF g_last_tick_count = INT_MAX
                         THEN "regress_unknown" ELSE "regress")
    /\ UNCHANGED <<shared, prod, handles, data, sret, wpolls, hiRep>>
    /\ UNCHANGED session

-----------------------------------------------------------------------------
\* irsdk_wait_for_data(timeout_ms, data) is entered; d: data != NULL.
\* Region not open: "Sleep on error", return false.
irsdk_wait_for_data(d) ==
    /\ Idle
    /\ EnsureStarted
    /\ ret' = "none" /\ branch' = "none"
    /\ IF g_is_initialized'
       THEN /\ useData' = d
            /\ wpc' = "poll1" /\ pc' = "status"
            /\ wret' = "none" /\ wpolls' = 1 /\ slept' = FALSE
       ELSE /\ useData' = FALSE
            /\ wpc' = "none" /\ pc' = "idle"
            /\ wret' = "false" /\ wpolls' = 0
            /\ \E timeout_ms \in Timeouts : slept' = (timeout_ms > 0)
    /\ data' = Frame(0)
    /\ UNCHANGED <<shared, prod, locals, woke, quiet, hiRep, lastTrue,
                   g_last_valid_time>>

\* The client calls irsdk_wait_for_data.
WaitCall ==
    /\ mpc = "free"
    /\ \E d \in BOOLEAN : irsdk_wait_for_data(d)
    /\ UNCHANGED session

\* WaitForSingleObject(g_data_valid_event, timeout_ms) returns, signalled or
\* timed out (the code ignores which), and the second poll begins.
WaitWake ==
    /\ wpc = "block"
    /\ \E w \in {"signal", "timeout"} : woke' = w
    /\ wpc' = "poll2" /\ pc' = "status"
    /\ wpolls' = 2
    /\ ret' = "none" /\ branch' = "none"
    /\ UNCHANGED <<shared, prod, handles, g_last_tick_count, locals, useData,
                   data, wret, sret, slept, quiet, hiRep, lastTrue, g_last_valid_time>>
    /\ UNCHANGED session

-----------------------------------------------------------------------------
Producer ==
    \/ ProducerBegin
    \/ ProducerWriteWord
    \/ ProducerWriteTick
    \/ ProducerConnect
    \/ ProducerDisconnect
    \/ ProducerRestart

Poll ==
    \/ PollStatus
    \/ PollScan
    \/ PollCompare
    \/ PollReadTick
    \/ PollCopy
    \/ PollVerify
    \/ PollAccept
    \/ PollRegressCheck
    \/ PollRegressSet

Next ==
    \/ Producer
    \/ Startup
    \/ Shutdown
    \/ PollCall
    \/ WaitCall
    \/ WaitWake
    \/ Poll

Spec == Init /\ [][Next]_vars

\* A connected producer whose tick counts only increase: it never restarts
\* and never clears its connected bit.
InitMono == Init /\ status = IRSDK_ST_CONNECTED

NextMono ==
    \/ ProducerBegin
    \/ ProducerWriteWord
    \/ ProducerWriteTick
    \/ Startup
    \/ Shutdown
    \/ PollCall
    \/ WaitCall
    \/ WaitWake
    \/ Poll

SpecMono == InitMono /\ [][NextMono]_vars

-----------------------------------------------------------------------------
\* The rest of the reader's interface that main.c uses.

\* irsdk_is_connected without the liveness window.
irsdk_is_connected_NoTimeout ==
    IF g_is_initialized /\ g_header
    THEN status = IRSDK_ST_CONNECTED
    ELSE FALSE

\* elapsed = (int)difftime(time(NULL), g_last_valid_time);
\* return (g_header->status & IRSDK_ST_CONNECTED) && (elapsed < TIMEOUT_SECONDS)
irsdk_is_connected ==
    IF g_is_initialized /\ g_header
    THEN /\ status = IRSDK_ST_CONNECTED
         /\ (now - g_last_valid_time) < TIMEOUT_SECONDS
    ELSE FALSE

irsdk_get_buf_len == IF g_is_initialized /\ g_header THEN buf_len ELSE 0

-----------------------------------------------------------------------------
\* The environment of the session loop.

\* Time passes, ClockStep seconds at a time, while the session loop is
\* suspended in WaitForSingleObject: on this clock the statements between two
\* suspensions take no time.
Tick ==
    /\ Alive
    /\ wpc = "block"
    /\ now < TIMEOUT_SECONDS + MaxClock * ClockStep
    /\ now' = now + ClockStep
    /\ UNCHANGED <<shared, prod, varHeaders, reader, g_running, mpc,
                   current_state, offsets, logger, mdata, data_size, lookup, metadata>>

\* SIGINT: signal_handler clears g_running.
Interrupt ==
    /\ g_running
    /\ mpc \notin {"free", "exit"}
    /\ g_running' = FALSE
    /\ UNCHANGED <<shared, prod, varHeaders, reader, now, mpc, current_state,
                   offsets, logger, mdata, data_size, lookup, metadata>>

\* The producer (re)writes its variable headers: while loading, or as another
\* build after a restart.
ProducerPublishVars ==
    /\ Alive
    /\ ProducerIdle
    /\ \E t \in SessionTables : t # varHeaders /\ varHeaders' = t
    /\ UNCHANGED <<shared, prod, reader, now, g_running, mpc, current_state,
                   offsets, logger, mdata, data_size, lookup, metadata>>

\* The producer publishes the frame of its next tick, buffer and tick_count,
\* between two steps of the reader.  The session loop sees of a frame only
\* whether a wait returned true, so under main.c the producer's writes are
\* not followed word by word.
ProducerPublish ==
    /\ Alive
    /\ ProducerIdle
    /\ status = IRSDK_ST_CONNECTED
    /\ pcount < MaxTick
    /\ pcount' = pcount + 1
    /\ buf' = [buf EXCEPT ![SlotOf(pcount + 1)] = Frame(pcount + 1)]
    /\ tick' = [tick EXCEPT ![SlotOf(pcount + 1)] = pcount + 1]
    /\ Disturb
    /\ UNCHANGED <<buf_len, status, pw, ptw, varHeaders, handles, g_last_tick_count,
                   sret, g_last_valid_time, pc, wpc, locals, useData, data,
                   ret, branch, waitobs, hiRep, lastTrue, now, g_running, mpc,
                   current_state, offsets, logger, mdata, data_size, lookup, metadata>>

-----------------------------------------------------------------------------
\* main.c, the session loop.  mpc is the statement main is at; a step that
\* follows a call of irsdk_wait_for_data waits for the call to return (Idle).

\* Whether logging starts: enable_logging, and telem_log_create succeeding.
LoggerOutcomes == BOOLEAN

\* while (g_running && !irsdk_startup()) Sleep(1000);
\* if (!g_running) return 0;  current_state = STATE_CONNECTED;
MainStartup ==
    /\ mpc = "startup"
    /\ IF g_running
       THEN /\ CallStartup
            /\ NewCall
            /\ IF sret' = "true"
               THEN /\ current_state' = STATE_CONNECTED
                    /\ offsets' = ZeroOffsets
                    /\ mpc' = "wait1"
               ELSE UNCHANGED <<current_state, offsets, mpc>>
            /\ UNCHANGED <<g_last_valid_time, pc, wpc, locals, useData, woke,
                           quiet, hiRep, lastTrue>>
       ELSE /\ mpc' = "exit"
            /\ UNCHANGED <<reader, current_state, offsets>>
    /\ UNCHANGED <<shared, prod, varHeaders, now, g_running, logger, mdata, data_size,
                   lookup, metadata>>

\* while (g_running) { irsdk_wait_for_data(1000, NULL);
\* after the loop: if (!g_running) { free(data); irsdk_shutdown(); return 0; }
MainWaitSession ==
    /\ mpc = "wait1"
    /\ Idle
    /\ IF g_running
       THEN /\ irsdk_wait_for_data(FALSE)
            /\ mpc' = "check1"
            /\ UNCHANGED <<mdata, data_size>>
       ELSE /\ irsdk_shutdown
            /\ mpc' = "exit"
            /\ mdata' = FALSE
            /\ data_size' = 0
            /\ UNCHANGED <<shared, prod, readerRest>>
    /\ UNCHANGED <<varHeaders, now, g_running, current_state, offsets, logger,
                   lookup, metadata>>

\* if (!irsdk_is_connected()) continue;  if (buf_len <= 0) continue;
\* if (!data) data = malloc(buf_len);  if (init_telemetry_offsets(&offsets))
\* break;  then, after the loop: current_state = STATE_IN_SESSION and the
\* logger is set up.  ok: whether malloc succeeds.
MainCheckSession ==
    /\ mpc = "check1"
    /\ Idle
    /\ IF ~irsdk_is_connected \/ irsdk_get_buf_len <= 0
       THEN /\ mpc' = "wait1"
            /\ UNCHANGED <<reader, current_state, offsets, logger, mdata, data_size>>
       ELSE \E ok \in (IF mdata THEN {TRUE} ELSE BOOLEAN) :
              IF ~ok
              THEN /\ irsdk_shutdown
                   /\ mpc' = "exit"
                   /\ UNCHANGED <<readerRest, current_state, offsets, logger,
                                  mdata, data_size>>
              ELSE /\ mdata' = TRUE
                   /\ data_size' = IF mdata THEN data_size ELSE irsdk_get_buf_len
                   /\ offsets' = resolve_offsets
                   /\ IF ~init_telemetry_offsets(offsets')
                      THEN /\ mpc' = "wait1"
                           /\ UNCHANGED <<reader, current_state, logger>>
                      ELSE IF g_running
                      THEN /\ current_state' = STATE_IN_SESSION
                           /\ \E l \in LoggerOutcomes : logger' = l
                           /\ mpc' = "wait2"
                           /\ UNCHANGED reader
                      ELSE /\ irsdk_shutdown
                           /\ mpc' = "exit"
                           /\ UNCHANGED <<readerRest, current_state, logger>>
    /\ UNCHANGED <<shared, prod, varHeaders, now, g_running, lookup, metadata>>

\* while (g_running) { if (irsdk_wait_for_data(16, data))
\* after the loop: the logger is stopped, irsdk_shutdown(), free(data).
MainWaitFrame ==
    /\ mpc = "wait2"
    /\ Idle
    /\ IF g_running
       THEN /\ irsdk_wait_for_data(TRUE)
            /\ mpc' = "frame"
            /\ UNCHANGED <<logger, mdata, data_size>>
       ELSE /\ irsdk_shutdown
            /\ mpc' = "exit"
            /\ logger' = FALSE
            /\ mdata' = FALSE
            /\ data_size' = 0
            /\ UNCHANGED <<shared, prod, readerRest>>
    /\ UNCHANGED <<varHeaders, now, g_running, current_state, offsets, lookup, metadata>>

\* { display_telemetry(data, &offsets, ...); if (logger) telem_log_sample(...) }
\* when the wait returned true.
MainFrame ==
    /\ mpc = "frame"
    /\ Idle
    /\ mpc' = "check2"
    /\ UNCHANGED <<shared, prod, varHeaders, reader, now, g_running,
                   current_state, offsets, logger, mdata, data_size, lookup, metadata>>

\* if (!irsdk_is_connected()) { current_state = STATE_WAITING; the logger is
\* stopped and destroyed; ...
MainCheckConnected ==
    /\ mpc = "check2"
    /\ IF irsdk_is_connected
       THEN /\ mpc' = "wait2"
            /\ UNCHANGED <<current_state, logger>>
       ELSE /\ current_state' = STATE_WAITING
            /\ logger' = FALSE
            /\ mpc' = "recheck"
    /\ UNCHANGED <<shared, prod, varHeaders, reader, now, g_running, offsets,
                   mdata, data_size, lookup, metadata>>

\* while (g_running && !irsdk_is_connected()) {
\*     if (irsdk_wait_for_data(1000, NULL)) {
MainReconnectWait ==
    /\ mpc = "recheck"
    /\ Idle
    /\ IF g_running /\ ~irsdk_is_connected
       THEN /\ irsdk_wait_for_data(FALSE)
            /\ mpc' = "rewait"
       ELSE /\ mpc' = "wait2"
            /\ UNCHANGED <<shared, prod, reader>>
    /\ UNCHANGED <<varHeaders, now, g_running, current_state, offsets, logger,
                   mdata, data_size, lookup, metadata>>

\* current_state = STATE_CONNECTED;
\* if (!init_telemetry_offsets(&offsets)) break;
\* current_state = STATE_IN_SESSION; ... logging is restarted
MainReconnect ==
    /\ mpc = "rewait"
    /\ Idle
    /\ IF wret = "true"
       THEN /\ offsets' = resolve_offsets
            /\ IF ~init_telemetry_offsets(offsets')
               THEN /\ current_state' = STATE_CONNECTED
                    /\ mpc' = "wait2"
                    /\ UNCHANGED logger
               ELSE /\ current_state' = STATE_IN_SESSION
                    /\ \E l \in LoggerOutcomes : logger' = l
                    /\ mpc' = "recheck"
       ELSE /\ mpc' = "recheck"
            /\ UNCHANGED <<current_state, offsets, logger>>
    /\ UNCHANGED <<shared, prod, varHeaders, reader, now, g_running, mdata, data_size,
                   lookup, metadata>>

Main ==
    \/ MainStartup
    \/ MainWaitSession
    \/ MainCheckSession
    \/ MainWaitFrame
    \/ MainFrame
    \/ MainCheckConnected
    \/ MainReconnectWait
    \/ MainReconnect

\* main.c at its start, over a producer that has published no frame.
InitProgram ==
    /\ InitSession
    /\ InitMetadata
    /\ mpc = "startup"
    /\ status \in {0, IRSDK_ST_CONNECTED}
    /\ tick = [i \in Slots |-> 0]
    /\ buf = [i \in Slots |-> Frame(0)]
    /\ buf_len = BufLen
    /\ pcount = 0 /\ pw = BufLen /\ ptw = TRUE
    /\ g_mem_map_file = FALSE /\ g_shared_mem = FALSE /\ g_header = FALSE
    /\ g_data_valid_event = FALSE
    /\ g_last_tick_count = INT_MAX
    /\ g_is_initialized = FALSE
    /\ pc = "idle" /\ wpc = "none"
    /\ latest = 0 /\ idx = 0 /\ count = 0 /\ cur_tick = 0 /\ cidx = 0
    /\ clen = 0
    /\ useData = FALSE
    /\ data = Frame(0)
    /\ ret = "none" /\ branch = "none" /\ wret = "none" /\ sret = "none"
    /\ wpolls = 0 /\ slept = FALSE /\ woke = "none"
    /\ quiet = TRUE
    /\ hiRep = 0
    /\ lastTrue = -1

InitMain == InitProgram /\ varHeaders = LoadingTable

\* The session loop over a producer that connects, loads, publishes frames,
\* disconnects and restarts; the clock stands still and no SIGINT arrives.
NextMain ==
    \/ ProducerPublish
    \/ ProducerConnect
    \/ ProducerDisconnect
    \/ ProducerRestart
    \/ ProducerPublishVars
    \/ Main
    \/ WaitWake
    \/ Poll

SpecMain == InitMain /\ [][NextMain]_vars

\* The session loop over a loaded producer that publishes frames, or stops
\* publishing, while time passes; it may clear and set its connected bit.
InitStale == InitProgram /\ varHeaders = RequiredTable

NextStale ==
    \/ ProducerPublish
    \/ ProducerConnect
    \/ ProducerDisconnect
    \/ Tick
    \/ Main
    \/ WaitWake
    \/ Poll

SpecStale == InitStale /\ [][NextStale]_vars

\* The session loop over a producer whose connected bit stays clear: it
\* publishes no frame.  SIGINT may arrive.
InitOff == InitProgram /\ status = 0 /\ varHeaders = RequiredTable

NextOff ==
    \/ ProducerPublishVars
    \/ Tick
    \/ Interrupt
    \/ MainStartup
    \/ MainWaitSession
    \/ MainCheckSession
    \/ WaitWake
    \/ PollStatus

SpecOff == InitOff /\ [][NextOff]_vars

\* The producer starts another session whose frames have another length: it
\* rewrites the header's buf_len, and its tick counts and buffers start over.
ProducerRestartLen ==
    /\ Alive
    /\ ProducerIdle
    /\ status = 0
    /\ \E n \in 1 .. BufLen : n # buf_len /\ buf_len' = n
    /\ tick' = [i \in Slots |-> 0]
    /\ buf' = [i \in Slots |-> Frame(0)]
    /\ pcount' = 0
    /\ hiRep' = 0
    /\ Disturb
    /\ UNCHANGED <<status, pw, ptw, varHeaders, handles, g_last_tick_count,
                   sret, g_last_valid_time, pc, wpc, locals, useData, data,
                   ret, branch, waitobs, lastTrue, now, g_running, mpc,
                   current_state, offsets, logger, mdata, data_size, lookup,
                   metadata>>

\* The session loop over a loaded producer that publishes frames, disconnects
\* and comes back with frames of another length.
NextLen ==
    \/ ProducerPublish
    \/ ProducerConnect
    \/ ProducerDisconnect
    \/ ProducerRestartLen
    \/ Main
    \/ WaitWake
    \/ Poll

SpecLen == InitStale /\ [][NextLen]_vars

\* The session loop over a loaded producer that publishes frames and clears
\* and sets its connected bit; SIGINT may arrive at any point.
NextCancel ==
    \/ ProducerPublish
    \/ ProducerConnect
    \/ ProducerDisconnect
    \/ Interrupt
    \/ Main
    \/ WaitWake
    \/ Poll

SpecCancel == InitStale /\ [][NextCancel]_vars

-----------------------------------------------------------------------------
\* Lookups in the variable directory, over every table of at most MaxVars
\* headers drawn from HeaderPool and every name of LookupNames, with the
\* region open and not.

\* Names of one and two characters, and one that fills the name field.
PoolNames == {<<"a">>, <<"a", "b">>, Rep("a", IRSDK_MAX_STRING)}

HeaderPool == {VarHeader(s, o) : s \in PoolNames, o \in {0, 4}}

VarTables == UNION {[1 .. n -> HeaderPool] : n \in 0 .. MaxVars}

\* NULL, the empty string, the pool's names, a name in no header, and names
\* one character shorter and one longer than the name field.
LookupNames ==
    {NULL, Ptr(<< >>), Ptr(<<"b">>)}
        \cup {Ptr(s) : s \in PoolNames}
        \cup {Ptr(Rep("a", IRSDK_MAX_STRING - 1)),
              Ptr(Rep("a", IRSDK_MAX_STRING + 1))}

InitVars ==
    /\ InitSession
    /\ InitMetadata
    /\ mpc = "free"
    /\ varHeaders \in VarTables
    /\ status = IRSDK_ST_CONNECTED
    /\ tick = [i \in Slots |-> 0]
    /\ buf = [i \in Slots |-> Frame(0)]
    /\ buf_len = BufLen
    /\ pcount = 0 /\ pw = BufLen /\ ptw = TRUE
    /\ g_is_initialized \in BOOLEAN
    /\ g_mem_map_file = g_is_initialized /\ g_shared_mem = g_is_initialized
    /\ g_header = g_is_initialized /\ g_data_valid_event = g_is_initialized
    /\ g_last_tick_count = INT_MAX
    /\ pc = "idle" /\ wpc = "none"
    /\ latest = 0 /\ idx = 0 /\ count = 0 /\ cur_tick = 0 /\ cidx = 0
    /\ clen = 0
    /\ useData = FALSE
    /\ data = Frame(0)
    /\ ret = "none" /\ branch = "none" /\ wret = "none"
    /\ sret = Str(g_is_initialized)
    /\ wpolls = 0 /\ slept = FALSE /\ woke = "none"
    /\ quiet = TRUE
    /\ hiRep = 0
    /\ lastTrue = -1

\* The client calls irsdk_var_name_to_index(name).
LookupIndex ==
    /\ \E name \in LookupNames :
          /\ qname' = name
          /\ ridx' = irsdk_var_name_to_index(name)
    /\ roff' = -2
    /\ UNCHANGED <<shared, prod, varHeaders, reader, now, g_running, mpc,
                   current_state, offsets, logger, mdata, data_size,
                   metadata>>

\* The client calls irsdk_var_name_to_offset(name).
LookupOffset ==
    /\ \E name \in LookupNames :
          /\ qname' = name
          /\ roff' = irsdk_var_name_to_offset(name)
    /\ ridx' = -2
    /\ UNCHANGED <<shared, prod, varHeaders, reader, now, g_running, mpc,
                   current_state, offsets, logger, mdata, data_size,
                   metadata>>

NextVars ==
    \/ LookupIndex
    \/ LookupOffset

SpecVars == InitVars /\ [][NextVars]_vars

\* Polls of an open region over a connected producer that holds still, from
\* every assignment of tick counts and every marker.
InitScan ==
    /\ InitSession
    /\ InitMetadata
    /\ mpc = "free"
    /\ varHeaders = NoVars
    /\ status = IRSDK_ST_CONNECTED
    /\ tick \in [Slots -> Ticks]
    /\ buf = [i \in Slots |-> Frame(tick[i])]
    /\ buf_len = BufLen
    /\ pcount = MaxTick /\ pw = BufLen /\ ptw = TRUE
    /\ g_mem_map_file = TRUE /\ g_shared_mem = TRUE /\ g_header = TRUE
    /\ g_data_valid_event = TRUE
    /\ g_last_tick_count \in Ticks \cup {INT_MAX}
    /\ g_is_initialized = TRUE
    /\ pc = "idle" /\ wpc = "none"
    /\ latest = 0 /\ idx = 0 /\ count = 0 /\ cur_tick = 0 /\ cidx = 0
    /\ clen = 0
    /\ useData = FALSE
    /\ data = Frame(0)
    /\ ret = "none" /\ branch = "none" /\ wret = "none" /\ sret = "true"
    /\ wpolls = 0 /\ slept = FALSE /\ woke = "none"
    /\ quiet = TRUE
    /\ hiRep = 0
    /\ lastTrue = -1

NextScan ==
    \/ PollCall
    \/ Poll

SpecScan == InitScan /\ [][NextScan]_vars

-----------------------------------------------------------------------------
\* The session metadata parser (yaml_parser.c).  A text is the sequence of its
\* characters; a pointer into a string is the index of a character, 0 for
\* NULL; *(p + k) is CharAt(s, p + k).

SP == " "
NL == "\n"
CR == "\r"

\* A value of enum yaml_state is the string of its name.

\* The string a pointer p into s points to.
From(s, p) == IF p = 0 \/ p > Len(s) THEN << >> ELSE SubSeq(s, p, Len(s))

\* yaml_parse: its locals before the loop.
yaml_locals ==
    [state |-> "YAML_STATE_SPACE", depth |-> 0, keystr |-> 0, keylen |-> 0,
     valuestr |-> 0, valuelen |-> 0, pathptr |-> 1, pathdepth |-> 0]

\* case ' ':
yaml_space(l) ==
    LET st == IF l.state = "YAML_STATE_NEWLINE" THEN "YAML_STATE_SPACE"
              ELSE l.state
    IN  IF st = "YAML_STATE_SPACE"
        THEN [l EXCEPT !.state = st, !.depth = @ + 1]
        ELSE IF st = "YAML_STATE_KEY" THEN [l EXCEPT !.keylen = @ + 1]
        ELSE IF st = "YAML_STATE_VALUE" THEN [l EXCEPT !.valuelen = @ + 1]
        ELSE l

\* case '-': (p: data, the position of the character)
yaml_dash(p, l) ==
    LET st == IF l.state = "YAML_STATE_NEWLINE" THEN "YAML_STATE_SPACE"
              ELSE l.state
    IN  IF st = "YAML_STATE_SPACE"
        THEN [l EXCEPT !.state = st, !.depth = @ + 1]
        ELSE IF st = "YAML_STATE_KEY" THEN [l EXCEPT !.keylen = @ + 1]
        ELSE IF st = "YAML_STATE_VALUE" THEN [l EXCEPT !.valuelen = @ + 1]
        ELSE IF st = "YAML_STATE_KEYSEP"
        THEN [l EXCEPT !.state = "YAML_STATE_VALUE", !.valuestr = p,
                       !.valuelen = 1]
        ELSE l

\* case ':': the colon that ends a key is counted in keylen.
yaml_colon(p, l) ==
    IF l.state = "YAML_STATE_KEY"
    THEN [l EXCEPT !.state = "YAML_STATE_KEYSEP", !.keylen = @ + 1]
    ELSE IF l.state = "YAML_STATE_KEYSEP"
    THEN [l EXCEPT !.state = "YAML_STATE_VALUE", !.valuestr = p]
    ELSE IF l.state = "YAML_STATE_VALUE" THEN [l EXCEPT !.valuelen = @ + 1]
    ELSE l

\* default:
yaml_default(p, l) ==
    LET l1 == IF l.state \in {"YAML_STATE_SPACE", "YAML_STATE_NEWLINE"}
              THEN [l EXCEPT !.state = "YAML_STATE_KEY", !.keystr = p,
                             !.keylen = 0]
              ELSE IF l.state = "YAML_STATE_KEYSEP"
              THEN [l EXCEPT !.state = "YAML_STATE_VALUE", !.valuestr = p,
                             !.valuelen = 0]
              ELSE l
        l2 == IF l1.state = "YAML_STATE_KEY"
              THEN [l1 EXCEPT !.keylen = @ + 1] ELSE l1
    IN  IF l2.state = "YAML_STATE_VALUE"
        THEN [l2 EXCEPT !.valuelen = @ + 1] ELSE l2

\* while (*(pathptr + pathvaluelen) && *(pathptr + pathvaluelen) != '}')
\*     pathvaluelen++;
RECURSIVE yaml_brace(_, _, _)
yaml_brace(path, pathptr, pathvaluelen) ==
    IF CharAt(path, pathptr + pathvaluelen) \in {NUL, "}"}
    THEN pathvaluelen
    ELSE yaml_brace(path, pathptr, pathvaluelen + 1)

\* case '\n': case '\r': whether yaml_parse returns here ("true", "false") or
\* goes on ("none"), and its locals then.
yaml_newline(text, path, l) ==
    IF l.state = "YAML_STATE_NEWLINE"
    THEN [ret |-> "none", l |-> l]
    ELSE IF l.depth < l.pathdepth
    THEN [ret |-> "false", l |-> l]
    ELSE LET reset == [l EXCEPT !.depth = 0, !.keylen = 0, !.valuelen = 0,
                                !.state = "YAML_STATE_NEWLINE"]
         IN  IF /\ l.keylen # 0
                /\ strncmp(From(text, l.keystr), From(path, l.pathptr),
                           l.keylen) = 0
             THEN LET brace == CharAt(path, l.pathptr + l.keylen) = "{"
                      pathvaluelen == yaml_brace(path, l.pathptr, l.keylen + 1)
                      literal ==
                          /\ l.valuelen = pathvaluelen - (l.keylen + 1)
                          /\ strncmp(From(text, l.valuestr),
                                     From(path, l.pathptr + l.keylen + 1),
                                     l.valuelen) = 0
                      found == ~brace \/ literal
                      pathptr == l.pathptr
                                   + (IF brace /\ literal
                                      THEN l.valuelen + 2 ELSE 0)
                                   + (IF found THEN l.keylen ELSE 0)
                  IN  IF found /\ CharAt(path, pathptr) = NUL
                      THEN [ret |-> "true", l |-> l]
                      ELSE [ret |-> "none",
                            l |-> [reset EXCEPT
                                     !.pathptr = pathptr,
                                     !.pathdepth = IF found THEN l.depth
                                                   ELSE l.pathdepth]]
             ELSE [ret |-> "none", l |-> reset]

\* switch (*data) { ... } for the character at position p: whether yaml_parse
\* returns there, and its locals then.
yaml_switch(text, path, p, l) ==
    CASE text[p] = SP -> [ret |-> "none", l |-> yaml_space(l)]
      [] text[p] = "-" -> [ret |-> "none", l |-> yaml_dash(p, l)]
      [] text[p] = ":" -> [ret |-> "none", l |-> yaml_colon(p, l)]
      [] text[p] \in {NL, CR} -> yaml_newline(text, path, l)
      [] OTHER -> [ret |-> "none", l |-> yaml_default(p, l)]

\* while (*data) { switch (*data) ... data++; } over the characters at the
\* positions lo .. hi, started with the locals l: ret and l as yaml_switch
\* gives them for the last character examined, and stop, the position of
\* data there.  The loop over lo .. hi is the loop over its first half and,
\* unless that returned, the loop over its second half.
RECURSIVE yaml_loop(_, _, _, _, _)
yaml_loop(text, path, lo, hi, l) ==
    IF lo > hi THEN [ret |-> "none", l |-> l, stop |-> lo]
    ELSE IF lo = hi
    THEN LET r == yaml_switch(text, path, lo, l)
         IN  [ret |-> r.ret, l |-> r.l,
              stop |-> IF r.ret = "none" THEN lo + 1 ELSE lo]
    ELSE LET first == yaml_loop(text, path, lo, (lo + hi) \div 2, l)
         IN  IF first.ret # "none" THEN first
             ELSE yaml_loop(text, path, (lo + hi) \div 2 + 1, hi, first.l)

\* bool yaml_parse(const char *data, const char *path, const char **val,
\*                 int *len), with val and len given: the loop over the whole
\* text, and the return false after it.  What it returns and stores: found,
\* *val, *len; and stop, the position of data when it returns.
yaml_parse(text, path) ==
    IF text = NULL \/ path = NULL
    THEN [found |-> FALSE, val |-> 0, len |-> 0, stop |-> 0]
    ELSE LET e == yaml_loop(text[1], path[1], 1, Len(text[1]), yaml_locals)
         IN  IF e.ret = "true"
             THEN [found |-> TRUE, val |-> e.l.valuestr,
                   len |-> e.l.valuelen, stop |-> e.stop]
             ELSE [found |-> FALSE, val |-> 0, len |-> 0, stop |-> e.stop]

\* The typed wrappers.  A buffer is NULL or points to an array of characters;
\* an array that was not written yet holds "?" in every element.

\* bool yaml_parse_string(data, path, buf, buf_size) without buf[0] = '\0'.
yaml_parse_string_NoClear(text, path, dest, buf_size) ==
    IF dest = NULL \/ buf_size <= 0
    THEN [ret |-> FALSE, buf |-> dest, buf_size |-> buf_size]
    ELSE LET r == yaml_parse(text, path)
             copy_len == IF r.len < buf_size - 1 THEN r.len ELSE buf_size - 1
         IN  IF r.found /\ r.val # 0 /\ r.len > 0
             THEN [ret |-> TRUE,
                   buf |-> Ptr([k \in 1 .. buf_size |->
                                  IF k <= copy_len
                                  THEN CharAt(text[1], r.val + k - 1)
                                  ELSE IF k = copy_len + 1 THEN NUL
                                  ELSE dest[1][k]]),
                   buf_size |-> buf_size]
             ELSE [ret |-> FALSE, buf |-> dest, buf_size |-> buf_size]

\* bool yaml_parse_string(data, path, buf, buf_size): what it returns and what
\* buf (dest) holds then.  buf[0] = '\0'; strncpy(buf, val, copy_len);
\* buf[copy_len] = '\0'.
yaml_parse_string(text, path, dest, buf_size) ==
    IF dest = NULL \/ buf_size <= 0
    THEN [ret |-> FALSE, buf |-> dest, buf_size |-> buf_size]
    ELSE LET r == yaml_parse(text, path)
             cleared == [dest[1] EXCEPT ![1] = NUL]
             copy_len == IF r.len < buf_size - 1 THEN r.len ELSE buf_size - 1
         IN  IF r.found /\ r.val # 0 /\ r.len > 0
             THEN [ret |-> TRUE,
                   buf |-> Ptr([k \in 1 .. buf_size |->
                                  IF k <= copy_len
                                  THEN CharAt(text[1], r.val + k - 1)
                                  ELSE IF k = copy_len + 1 THEN NUL
                                  ELSE cleared[k]]),
                   buf_size |-> buf_size]
             ELSE [ret |-> FALSE, buf |-> Ptr(cleared), buf_size |-> buf_size]

\* char temp[64]; copy_len = (len < 63) ? len : 63; strncpy; temp[copy_len] = 0
yaml_temp(text, r) ==
    LET copy_len == IF r.len < 63 THEN r.len ELSE 63
    IN  [k \in 1 .. copy_len |-> CharAt(text[1], r.val + k - 1)]

Digits == <<"0", "1", "2", "3", "4", "5", "6", "7", "8", "9">>
IsDigit(c) == \E k \in 1 .. 10 : Digits[k] = c
DigitVal(c) == (CHOOSE k \in 1 .. 10 : Digits[k] = c) - 1

\* The number the digits of str from position k on spell, after acc, and the
\* position of the first character that is not a digit.
RECURSIVE digits_from(_, _, _)
digits_from(str, k, acc) ==
    IF IsDigit(CharAt(str, k))
    THEN digits_from(str, k + 1, acc * 10 + DigitVal(str[k]))
    ELSE [value |-> acc, next |-> k]

RECURSIVE skip_space(_, _)
skip_space(str, k) ==
    IF CharAt(str, k) = SP THEN skip_space(str, k + 1) ELSE k

\* atoi: white space, an optional sign, then the digits there are.
atoi(str) ==
    LET k == skip_space(str, 1)
        neg == CharAt(str, k) = "-"
        j == IF CharAt(str, k) \in {"-", "+"} THEN k + 1 ELSE k
        n == digits_from(str, j, 0).value
    IN  IF neg THEN 0 - n ELSE n

\* atof, for a decimal without exponent: the number is mant / 10^exp.
atof(str) ==
    LET k == skip_space(str, 1)
        neg == CharAt(str, k) = "-"
        j == IF CharAt(str, k) \in {"-", "+"} THEN k + 1 ELSE k
        ip == digits_from(str, j, 0)
        fp == IF CharAt(str, ip.next) = "."
              THEN digits_from(str, ip.next + 1, ip.value)
              ELSE [value |-> ip.value, next |-> ip.next]
        exp == IF CharAt(str, ip.next) = "."
               THEN fp.next - (ip.next + 1) ELSE 0
    IN  IF fp.value = 0 THEN [mant |-> 0, exp |-> 0]
        ELSE [mant |-> IF neg THEN 0 - fp.value ELSE fp.value, exp |-> exp]

\* 0.0
ZeroFloat == [mant |-> 0, exp |-> 0]

\* bool yaml_parse_int(data, path, value), value given: *value = 0; ...
yaml_parse_int(text, path) ==
    LET r == yaml_parse(text, path)
    IN  IF r.found /\ r.val # 0 /\ r.len > 0
        THEN [ret |-> TRUE, value |-> atoi(yaml_temp(text, r))]
        ELSE [ret |-> FALSE, value |-> 0]

\* bool yaml_parse_float(data, path, value), value given.  The model's numbers
\* are decimals: the narrowing of (float)atof(temp) is not represented.
yaml_parse_float(text, path) ==
    LET r == yaml_parse(text, path)
    IN  IF r.found /\ r.val # 0 /\ r.len > 0
        THEN [ret |-> TRUE, value |-> atof(yaml_temp(text, r))]
        ELSE [ret |-> FALSE, value |-> ZeroFloat]

\* bool yaml_parse_double(data, path, value), value given.
yaml_parse_double(text, path) ==
    LET r == yaml_parse(text, path)
    IN  IF r.found /\ r.val # 0 /\ r.len > 0
        THEN [ret |-> TRUE, value |-> atof(yaml_temp(text, r))]
        ELSE [ret |-> FALSE, value |-> ZeroFloat]

-----------------------------------------------------------------------------
\* The metadata texts the producer publishes.  A text is rendered from lines:
\* ind spaces, "- " for the first line of a list element, the key, a colon,
\* and " value" when the line has a value.  A line with an empty key is blank.

Line(ind, dash, key, val) ==
    [ind |-> ind, dash |-> dash, key |-> key, val |-> val, eol |-> <<NL>>]

RenderLine(ln) ==
    IF ln.key = << >>
    THEN ln.eol
    ELSE Rep(SP, ln.ind) \o (IF ln.dash THEN <<"-", SP>> ELSE << >>)
           \o ln.key \o <<":">>
           \o (IF ln.val = << >> THEN << >> ELSE <<SP>> \o ln.val)
           \o ln.eol

\* The text of the first n lines of a document.
RECURSIVE Render(_, _)
Render(doc, n) ==
    IF n = 0 THEN << >> ELSE Render(doc, n - 1) \o RenderLine(doc[n])

Drivers == <<"D", "r", "i", "v", "e", "r", "s">>
CarIdx == <<"C", "a", "r", "I", "d", "x">>
UserName == <<"U", "s", "e", "r", "N", "a", "m", "e">>

Docs ==
    {\* Scenario 3 of the specification: WeekendInfo, with TrackName: Texas.
     <<Line(0, FALSE, <<"W", "e", "e", "k", "e", "n", "d", "I", "n", "f", "o">>,
            << >>),
       Line(2, FALSE, <<"T", "r", "a", "c", "k", "N", "a", "m", "e">>,
            <<"T", "e", "x", "a", "s">>)>>,
     \* A and its child B, with CR LF line ends and a blank line.
     <<[Line(0, FALSE, <<"A">>, << >>) EXCEPT !.eol = <<CR, NL>>],
       [Line(0, FALSE, << >>, << >>) EXCEPT !.eol = <<CR, NL>>],
       [Line(2, FALSE, <<"B">>, <<"v">>) EXCEPT !.eol = <<CR, NL>>]>>,
     \* A has a child X; B is a sibling of A.
     <<Line(0, FALSE, <<"A">>, << >>),
       Line(2, FALSE, <<"X">>, <<"1">>),
       Line(0, FALSE, <<"B">>, <<"v">>)>>,
     \* B is nested under X, a child of A.
     <<Line(0, FALSE, <<"A">>, << >>),
       Line(2, FALSE, <<"X">>, << >>),
       Line(4, FALSE, <<"B">>, <<"v">>)>>,
     \* B is a child of A, and of C after it.
     <<Line(0, FALSE, <<"A">>, << >>),
       Line(2, FALSE, <<"X">>, <<"1">>),
       Line(2, FALSE, <<"B">>, <<"v">>),
       Line(0, FALSE, <<"C">>, << >>),
       Line(2, FALSE, <<"B">>, <<"w">>)>>,
     \* A has no child B; C, after A, has.
     <<Line(0, FALSE, <<"A">>, << >>),
       Line(2, FALSE, <<"X">>, <<"1">>),
       Line(0, FALSE, <<"C">>, << >>),
       Line(2, FALSE, <<"B">>, <<"v">>)>>,
     \* X:A has no child B; the subtree of X ends, and B is a child of C.
     <<Line(0, FALSE, <<"X">>, << >>),
       Line(2, FALSE, <<"A">>, << >>),
       Line(4, FALSE, <<"Y">>, <<"1">>),
       Line(0, FALSE, <<"C">>, << >>),
       Line(2, FALSE, <<"B">>, <<"v">>)>>,
     \* X:A has no child B; B is a child of A's sibling C.
     <<Line(0, FALSE, <<"X">>, << >>),
       Line(2, FALSE, <<"A">>, << >>),
       Line(4, FALSE, <<"Y">>, <<"1">>),
       Line(2, FALSE, <<"C">>, << >>),
       Line(4, FALSE, <<"B">>, <<"v">>)>>,
     \* Scenario 4 of the specification.
     <<Line(0, FALSE, Drivers, << >>),
       Line(1, TRUE, CarIdx, <<"0">>),
       Line(3, FALSE, UserName, <<"a", "l">>),
       Line(1, TRUE, CarIdx, <<"1">>),
       Line(3, FALSE, UserName, <<"b", "o">>)>>,
     \* The element with CarIdx 1 has no UserName; the one after it has.
     <<Line(0, FALSE, Drivers, << >>),
       Line(1, TRUE, CarIdx, <<"0">>),
       Line(3, FALSE, UserName, <<"a", "l">>),
       Line(1, TRUE, CarIdx, <<"1">>),
       Line(3, FALSE, <<"T", "e", "a", "m">>, <<"x">>),
       Line(1, TRUE, CarIdx, <<"2">>),
       Line(3, FALSE, UserName, <<"c", "y">>)>>,
     \* Values for the typed wrappers: a number, a decimal, a number with a
     \* unit, a word, and no value.
     <<Line(0, FALSE, <<"N">>, <<"1", "2">>),
       Line(0, FALSE, <<"F">>, <<"3", ".", "5">>),
       Line(0, FALSE, <<"K">>, <<"7", " ", "k", "m">>),
       Line(0, FALSE, <<"S">>, <<"a", "b", "c", "d", "e">>),
       Line(0, FALSE, <<"E">>, << >>)>>}

\* Paths.  SpecPath: the segments joined by colons, as the specification and
\* yaml_parser.h write a path.  ColonPath: every segment followed by a colon.
RECURSIVE ColonPath(_)
ColonPath(segs) ==
    IF segs = << >> THEN << >>
    ELSE Head(segs) \o <<":">> \o ColonPath(Tail(segs))

SpecPath(segs) ==
    LET c == ColonPath(segs) IN SubSeq(c, 1, Len(c) - 1)

\* Array selection.  SpecSelPath: "Drivers:{1}UserName", as the specification
\* and yaml_parser.h write it.  SelPath: "Drivers:CarIdx:{1}UserName", as
\* main.c writes it.
SpecSelPath(list, lit, key) == list \o <<":", "{">> \o lit \o <<"}">> \o key
SelPath(list, sel, lit, key) ==
    list \o <<":">> \o sel \o <<":", "{">> \o lit \o <<"}">> \o key

\* The segment lists and the literals queried.
SegPaths ==
    {<<<<"W", "e", "e", "k", "e", "n", "d", "I", "n", "f", "o">>,
       <<"T", "r", "a", "c", "k", "N", "a", "m", "e">>>>,
     <<<<"A">>, <<"B">>>>, <<<<"X">>, <<"A">>, <<"B">>>>, <<<<"N">>>>,
     <<<<"F">>>>, <<<<"K">>>>, <<<<"S">>>>, <<<<"E">>>>, <<<<"Z">>>>}
SelLiterals == {<<"0">>, <<"1">>, <<"2">>, <<"3">>}

\* The paths queried: no path, the segment lists in both forms, and the
\* selections of a driver's UserName in the three forms, the last SelPath
\* with a colon after the key.
Paths ==
    {NULL}
      \cup {Ptr(SpecPath(q)) : q \in SegPaths}
      \cup {Ptr(ColonPath(q)) : q \in SegPaths}
      \cup {Ptr(SpecSelPath(Drivers, n, UserName)) : n \in SelLiterals}
      \cup {Ptr(SelPath(Drivers, CarIdx, n, UserName)) : n \in SelLiterals}
      \cup {Ptr(SelPath(Drivers, CarIdx, n, UserName) \o <<":">>) :
               n \in SelLiterals}

\* buf_size of the string buffers handed to yaml_parse_string.
BufSizes == {0, 1, 3, 8}

\* A client with the session info string of one of the documents (or without
\* one: irsdk_get_session_info() returned NULL).
InitYaml ==
    /\ InitSession
    /\ mpc = "free"
    /\ varHeaders = NoVars
    /\ ydoc \in Docs
    /\ yaml \in {NULL, Ptr(Render(ydoc, Len(ydoc)))}
    /\ ypath = NULL /\ ycall = "none" /\ yout = << >>
    /\ status = IRSDK_ST_CONNECTED
    /\ tick = [i \in Slots |-> 0]
    /\ buf = [i \in Slots |-> Frame(0)]
    /\ buf_len = BufLen
    /\ pcount = 0 /\ pw = BufLen /\ ptw = TRUE
    /\ g_mem_map_file = TRUE /\ g_shared_mem = TRUE /\ g_header = TRUE
    /\ g_data_valid_event = TRUE
    /\ g_last_tick_count = INT_MAX
    /\ g_is_initialized = TRUE
    /\ pc = "idle" /\ wpc = "none"
    /\ latest = 0 /\ idx = 0 /\ count = 0 /\ cur_tick = 0 /\ cidx = 0
    /\ clen = 0
    /\ useData = FALSE
    /\ data = Frame(0)
    /\ ret = "none" /\ branch = "none" /\ wret = "none" /\ sret = "true"
    /\ wpolls = 0 /\ slept = FALSE /\ woke = "none"
    /\ quiet = TRUE
    /\ hiRep = 0
    /\ lastTrue = -1

\* What a query leaves alone.
QueryFrame ==
    UNCHANGED <<shared, prod, varHeaders, reader, now, g_running, mpc,
                current_state, offsets, logger, mdata, data_size, lookup,
                yaml, ydoc>>

\* The client calls yaml_parse(yaml, path, &val, &len).
Query ==
    /\ ycall = "none"
    /\ \E path \in Paths :
          /\ ypath' = path
          /\ yout' = yaml_parse(yaml, path)
    /\ ycall' = "parse"
    /\ QueryFrame

\* The client calls yaml_parse_string(yaml, path, buf, buf_size).
QueryString ==
    /\ ycall = "none"
    /\ \E path \in Paths, buf_size \in BufSizes :
          /\ ypath' = path
          /\ yout' = yaml_parse_string(yaml, path, Ptr(Rep("?", buf_size)),
                                       buf_size)
    /\ ycall' = "string"
    /\ QueryFrame

\* The client calls yaml_parse_int(yaml, path, &value).
QueryInt ==
    /\ ycall = "none"
    /\ \E path \in Paths :
          /\ ypath' = path
          /\ yout' = yaml_parse_int(yaml, path)
    /\ ycall' = "int"
    /\ QueryFrame

\* The client calls yaml_parse_float(yaml, path, &value).
QueryFloat ==
    /\ ycall = "none"
    /\ \E path \in Paths :
          /\ ypath' = path
          /\ yout' = yaml_parse_float(yaml, path)
    /\ ycall' = "float"
    /\ QueryFrame

\* The client calls yaml_parse_double(yaml, path, &value).
QueryDouble ==
    /\ ycall = "none"
    /\ \E path \in Paths :
          /\ ypath' = path
          /\ yout' = yaml_parse_double(yaml, path)
    /\ ycall' = "double"
    /\ QueryFrame

NextYaml ==
    \/ Query
    \/ QueryString
    \/ QueryInt
    \/ QueryFloat
    \/ QueryDouble

SpecYaml == InitYaml /\ [][NextYaml]_vars

-----------------------------------------------------------------------------
\* Vocabulary of the properties.

\* The step on which irsdk_get_new_data returns (from an open region).
PollDone == pc # "idle" /\ pc' = "idle"

\* The highest tick_count any descriptor holds.
MaxHeld == CHOOSE t \in Ticks :
              /\ \E i \in Slots : tick[i] = t
              /\ \A i \in Slots : tick[i] <= t

\* The lowest slot holding the highest tick_count.
FirstMax == CHOOSE i \in Slots :
              /\ tick[i] = MaxHeld
              /\ \A j \in Slots : j < i => tick[j] < MaxHeld

TypeOK ==
    /\ status \in {0, 1}
    /\ tick \in [Slots -> Ticks]
    /\ g_last_tick_count \in Ticks \cup {INT_MAX}
    /\ pc \in {"idle", "status", "scan", "cmp", "readtick", "copy", "verify",
               "accept", "regress", "regress_set"}
    /\ wpc \in {"none", "poll1", "block", "poll2"}

-----------------------------------------------------------------------------
\* C1: whenever a poll given a destination buffer returns true, the bytes in
\* the destination are exactly the frame the producer published for the tick
\* the poll recorded as the last-seen marker (no torn read is accepted).
C1_NoTornReadAccepted ==
    branch = "accept" => data = Frame(g_last_tick_count)

\* C2: the tick recorded by a poll that returns true is strictly greater than
\* the tick recorded by the previous poll that returned true, unless a poll in
\* between took the disconnect or the regression branch; and a poll that
\* returns true never lowers the last-seen marker.
C2_TrueNeverLowersMarker ==
    [][(PollDone /\ ret' = "true")
          => /\ g_last_tick_count' >= g_last_tick_count
             /\ lastTrue # -1 => g_last_tick_count' > lastTrue]_vars

\* C3: a poll of an open region that reads the connected bit clear returns
\* false, whatever the descriptors and buffers hold, and leaves the marker
\* at INT_MAX.
C3_DisconnectReturnsFalse ==
    [][(pc = "status" /\ pc' # "status" /\ status # IRSDK_ST_CONNECTED)
          => /\ pc' = "idle"
             /\ ret' = "false"
             /\ branch' = "disconnect"
             /\ g_last_tick_count' = INT_MAX
             /\ data' = data]_vars

\* C3 happens: the disconnect branch was taken while a descriptor held a tick
\* newer than any reported.
C3_Witness ==
    /\ branch = "disconnect" /\ ret = "false"
    /\ g_last_tick_count = INT_MAX
    /\ hiRep > 0 /\ MaxHeld > hiRep

\* C4: the regression branch sets the marker to the selected tick_count,
\* returns false and copies nothing; and it is, with the disconnect branch,
\* the only step on which the marker decreases.
C4_OnlyRegressionLowersMarker ==
    [][/\ (pc = "regress_set" /\ pc' # "regress_set")
             => /\ g_last_tick_count' = tick[latest]
                /\ ret' = "false"
                /\ data' = data
       /\ (g_last_tick_count' < g_last_tick_count)
             => \/ pc = "regress_set"
                \/ pc = "status" /\ status # IRSDK_ST_CONNECTED]_vars

\* C5: over a connected producer whose tick counts only increase, a poll
\* returns true only if some descriptor holds a tick_count greater than the
\* highest tick reported so far, and the tick it records is greater than
\* every tick reported before (each tick is reported at most once); and a
\* poll during which the producer holds still returns true whenever the
\* highest tick_count held exceeds the marker.
C5_EachTickReportedOnce ==
    [][/\ (PollDone /\ ret' = "true")
             => /\ \E i \in Slots : tick[i] > hiRep
                /\ g_last_tick_count' > hiRep
                /\ lastTrue # -1 => g_last_tick_count' > lastTrue
       /\ (PollDone /\ quiet /\ g_last_tick_count < MaxHeld)
             => /\ ret' = "true"
                /\ g_last_tick_count' = MaxHeld]_vars

\* C5 happens: a second tick was reported after a first.
C5_Witness ==
    /\ ret = "true" /\ branch = "accept"
    /\ g_last_tick_count >= 2
    /\ data = Frame(g_last_tick_count)

\* C6: with the tick counts held fixed, the scan selects the lowest slot
\* holding the highest tick_count, and that is the descriptor whose tick the
\* poll then records.
C6_ScanSelectsFirstMax ==
    /\ pc \in {"cmp", "readtick", "copy", "verify", "accept", "regress",
               "regress_set"} => latest = FirstMax
    /\ branch \in {"accept", "accept_null", "regress", "regress_unknown"}
          => g_last_tick_count = MaxHeld

\* C6 happens: the scan finished over descriptors of which two share the
\* highest tick_count.
C6_Witness ==
    /\ pc = "cmp"
    /\ \E i, j \in Slots : i < j /\ tick[i] = MaxHeld /\ tick[j] = MaxHeld
    /\ MaxHeld > 0
    /\ latest = FirstMax

\* C7: a poll with a destination buffer makes at most two copy-and-verify
\* attempts; when the tick_count differs before and after the copy on both,
\* it returns false with the marker as it was when the call began.
C7_TornReadReturnsFalse ==
    /\ [](count < 2)
    /\ [][/\ (pc # "idle" /\ pc' # "idle")
                => g_last_tick_count' = g_last_tick_count
          /\ (pc = "verify" /\ pc' # "verify" /\ cur_tick # tick[latest])
                => IF count = 0
                   THEN pc' = "readtick" /\ count' = 1
                   ELSE /\ pc' = "idle"
                        /\ ret' = "false"
                        /\ branch' = "torn"
                        /\ g_last_tick_count' = g_last_tick_count]_vars

\* C7 happens: a poll returned false after two inconsistent copies, and a
\* tick newer than the marker is still there for a later poll.
C7_Witness ==
    /\ branch = "torn" /\ ret = "false"
    /\ g_last_tick_count < MaxHeld

\* C8: wait polls; it blocks on the signal only after that poll returned
\* false, and polls a second time only after the block; whichever way the
\* block ended, wait returns what the second poll returns, so it returns true
\* whenever the second poll reports a tick newer than the marker.
C8_WaitPollsAgainAfterBlock ==
    [][/\ (wpc = "poll1" /\ PollDone)
             => IF ret' = "true"
                THEN wpc' = "none" /\ wret' = "true"
                ELSE wpc' = "block" /\ wret' = "none"
       /\ (wpc' = "block" /\ wpc # "block")
             => (wpc = "poll1" /\ PollDone /\ ret' = "false")
       /\ (wpc = "block" /\ wpc' # "block")
             => (wpc' = "poll2" /\ pc' = "status")
       /\ (wpc' = "poll2" /\ wpc # "poll2") => wpc = "block"
       /\ (wpc = "poll2" /\ PollDone)
             => (wpc' = "none" /\ wret' = ret')
       /\ (wpc = "poll2" /\ PollDone /\ quiet /\ status = IRSDK_ST_CONNECTED
             /\ g_last_tick_count < MaxHeld)
             => wret' = "true"
       /\ (wret' = "true" /\ wret # "true") => (PollDone /\ ret' = "true")]_vars

\* C8 happens: a wait returned true from its second poll, after its first
\* poll had returned false.
C8_Witness ==
    /\ wret = "true" /\ wpolls = 2 /\ ret = "true"

\* C9: a wait call suspends for at most one timeout period: it sleeps only
\* when the region is not open (and then returns false), and no call both
\* blocks on the signal and sleeps.
C9_AtMostOneSuspension ==
    slept => (wpolls = 0 /\ wret = "false" /\ ~g_is_initialized)

\* C10 as stated: after an open() that returned false none of the three
\* resources is held.
C10_NothingHeldAfterFailure ==
    sret = "false"
       => (~g_mem_map_file /\ ~g_shared_mem /\ ~g_data_valid_event)

\* C10 amended: after an open() that returned false the ready flag is clear
\* and the resources of the steps that succeeded are still held (the mapping,
\* or the mapping and the view; never the event); and no call of open()
\* releases or re-acquires a resource that is held.
C10_FailureKeepsAcquired ==
    /\ [](sret = "false"
            => /\ ~g_is_initialized
               /\ ~g_data_valid_event
               /\ g_shared_mem => g_mem_map_file
               /\ g_header = g_shared_mem)
    /\ [][sret' # "none"
            => /\ g_mem_map_file => g_mem_map_file'
               /\ g_shared_mem => g_shared_mem'
               /\ g_data_valid_event => g_data_valid_event']_vars

\* C10 happens: open() returned false with the mapping open and the view
\* mapped, the event still missing.
C10_Witness ==
    sret = "false" /\ g_mem_map_file /\ g_shared_mem /\ ~g_data_valid_event

-----------------------------------------------------------------------------
\* More vocabulary.

\* The step on which main has read irsdk_is_connected() at "Check if still
\* connected".
CheckStep == mpc = "check2" /\ mpc' # "check2"

\* The step on which main consumes a frame (display_telemetry, and
\* telem_log_sample when logging): the wait returned true.
FrameStep == mpc = "frame" /\ mpc' # "frame" /\ wret = "true"

\* Every required variable has a header (with a non-negative offset).
RequiredPresent ==
    \A v \in RequiredVars :
        \E i \in 1 .. Len(varHeaders) :
            varHeaders[i].name = v /\ varHeaders[i].offset >= 0

\* The name field of header i equals the string s over its IRSDK_MAX_STRING
\* characters.
NameMatches(s, i) ==
    \A k \in 1 .. IRSDK_MAX_STRING :
        CharAt(s, k) = CharAt(varHeaders[i + 1].name, k)

\* What a lookup of the name looked up is to find: the lowest matching index,
\* -1 when no header matches, the name is NULL or the handle is not ready.
ExpectedIndex ==
    IF qname = NULL \/ ~g_is_initialized
    THEN -1
    ELSE LET hits == {i \in 0 .. (Len(varHeaders) - 1) :
                          NameMatches(qname[1], i)}
         IN  IF hits = {} THEN -1
             ELSE CHOOSE i \in hits : \A j \in hits : i <= j

-----------------------------------------------------------------------------
\* C11: whatever calls were made and whatever the OS steps did, the ready flag
\* (the value open() returned) is true if and only if the mapping handle, the
\* mapped view and the signal handle are all held; after close() none of the
\* three is held, the header pointer is NULL, the flag is false and the marker
\* is INT_MAX.
C11_ReadyIffAllHeld ==
    /\ g_is_initialized
          <=> (g_mem_map_file /\ g_shared_mem /\ g_data_valid_event)
    /\ g_header = g_shared_mem
    /\ sret # "none" => (sret = "true" <=> g_is_initialized)
    /\ sret = "none"
          => /\ ~g_mem_map_file /\ ~g_shared_mem /\ ~g_data_valid_event
             /\ ~g_header
             /\ ~g_is_initialized
             /\ g_last_tick_count = INT_MAX

\* C11 happens: close() was called after a poll of the open region had
\* reported a frame.
C11_Witness ==
    /\ sret = "none" /\ lastTrue # -1
    /\ ~g_is_initialized /\ ~g_mem_map_file

\* C12 as stated: with the connected bit clear for the whole run the state
\* machine never reaches Connected.
C12_NeverConnected == current_state # STATE_CONNECTED

\* C12 amended: with the connected bit clear for the whole run the state
\* machine is Connected once open() has succeeded and never reaches
\* InSession: main stays in its first loop, every poll returns false at the
\* connected-bit check and every wait returns false.
C12_NeverInSession ==
    /\ current_state # STATE_IN_SESSION
    /\ wret # "true" /\ ret # "true"
    /\ mpc \in {"startup", "wait1", "check1", "exit"}
    /\ pc \in {"idle", "status"}
    /\ mpc \in {"wait1", "check1"} => current_state = STATE_CONNECTED
    /\ mpc = "startup" => current_state = STATE_WAITING

\* C12 happens: Connected, and a wait has returned false after both its polls
\* found the connected bit clear.
C12_Witness ==
    /\ status = 0
    /\ current_state = STATE_CONNECTED
    /\ mpc = "check1" /\ wret = "false" /\ wpolls = 2 /\ branch = "disconnect"

\* C13: the state machine enters InSession only on a step that runs the offset
\* resolution and finds Speed, RPM and Gear at non-negative offsets, after a
\* poll has returned true (g_last_valid_time is written by true polls only);
\* and whenever the resolution runs with the required variables present the
\* state becomes InSession, whichever optional variables are absent.
C13_InSessionNeedsRequired ==
    [][/\ (current_state' = STATE_IN_SESSION
              /\ current_state # STATE_IN_SESSION)
             => /\ mpc \in {"check1", "rewait"}
                /\ offsets' = resolve_offsets
                /\ offsets'.speed >= 0 /\ offsets'.rpm >= 0
                /\ offsets'.gear >= 0
                /\ g_last_valid_time # 0
       /\ (g_last_valid_time' # g_last_valid_time)
             => (PollDone /\ ret' = "true")
       /\ (mpc = "check1" /\ mpc' \notin {"check1", "exit"}
             /\ irsdk_is_connected /\ RequiredPresent)
             => current_state' = STATE_IN_SESSION
       /\ (mpc = "rewait" /\ mpc' # "rewait" /\ wret = "true"
             /\ RequiredPresent)
             => current_state' = STATE_IN_SESSION]_vars

\* C13 happens: InSession with every optional variable absent.
C13_Witness ==
    /\ current_state = STATE_IN_SESSION
    /\ offsets.speed >= 0 /\ offsets.rpm >= 0 /\ offsets.gear >= 0
    /\ offsets.throttle < 0 /\ offsets.brake < 0 /\ offsets.clutch < 0
    /\ offsets.lap < 0 /\ offsets.lap_dist_pct < 0
    /\ offsets.session_time < 0 /\ offsets.fuel_level < 0
    /\ offsets.is_on_track < 0

\* C14: whenever main, in state Connected or InSession, finds
\* irsdk_is_connected() false (the connected bit is clear, the handle is not
\* ready, or the last frame is older than the liveness window), the state
\* becomes Waiting and the logger is stopped; no logger is active while the
\* state is Waiting.
C14_DisconnectLeadsToWaiting ==
    /\ [](current_state = STATE_WAITING => ~logger)
    /\ [][(/\ mpc \in {"check1", "check2"} /\ mpc' # mpc
           /\ current_state \in {STATE_CONNECTED, STATE_IN_SESSION}
           /\ ~irsdk_is_connected
           /\ \/ status # IRSDK_ST_CONNECTED
              \/ ~g_is_initialized
              \/ g_last_valid_time # 0)
             => (current_state' = STATE_WAITING /\ ~logger')]_vars

\* C15: while the state is Waiting after a session, no offset is held as
\* resolved.
C15_WaitingDiscardsOffsets ==
    (current_state = STATE_WAITING /\ mpc # "startup")
       => /\ offsets.speed < 0 /\ offsets.rpm < 0 /\ offsets.gear < 0
          /\ offsets.throttle < 0 /\ offsets.brake < 0 /\ offsets.clutch < 0
          /\ offsets.lap < 0 /\ offsets.lap_dist_pct < 0
          /\ offsets.session_time < 0 /\ offsets.fuel_level < 0
          /\ offsets.is_on_track < 0

\* C16: a poll that finds the highest tick_count below the tick the marker
\* holds returns false; and when the wait main made in state InSession ended
\* on such a poll, main's next connection check moves the state to Waiting.
C16_RegressionLeadsToWaiting ==
    /\ [](branch = "regress" => ret = "false")
    /\ [][(CheckStep /\ branch = "regress"
             /\ current_state = STATE_IN_SESSION)
             => current_state' = STATE_WAITING]_vars

\* C17: main consumes a frame (displays it, logs it) only while the state is
\* InSession, and so never between a transition to Waiting and the offset
\* resolution that follows it.
C17_FramesOnlyInSession ==
    [][FrameStep => current_state = STATE_IN_SESSION]_vars

\* C18: while the state is Connected because the offset resolution failed,
\* the resolution is retried on later polls: a wait that returns true with
\* the required variables now present takes the state to InSession.
C18_ResolutionRetried ==
    [][(FrameStep /\ current_state = STATE_CONNECTED /\ RequiredPresent)
          => current_state' = STATE_IN_SESSION]_vars

\* C19: g_last_valid_time is the time of the last poll that returned true;
\* irsdk_is_connected() is true exactly while the handle is ready, the
\* connected bit is set and that poll is less than TIMEOUT_SECONDS old; and
\* when main's connection check finds it TIMEOUT_SECONDS old or older, the
\* state moves to Waiting although the connected bit is set.
C19_StaleMeansDisconnected ==
    [][/\ (PollDone /\ ret' = "true") => g_last_valid_time' = now
       /\ ~(PollDone /\ ret' = "true")
             => g_last_valid_time' = g_last_valid_time
       /\ irsdk_is_connected
             <=> /\ g_is_initialized
                 /\ status = IRSDK_ST_CONNECTED
                 /\ now - g_last_valid_time < TIMEOUT_SECONDS
       /\ (CheckStep /\ now - g_last_valid_time >= TIMEOUT_SECONDS)
             => (current_state' = STATE_WAITING /\ mpc' = "recheck")]_vars

\* C19 happens: the session went from InSession to Waiting with the connected
\* bit set, the last frame being TIMEOUT_SECONDS old.
C19_Witness ==
    /\ current_state = STATE_WAITING /\ mpc = "recheck"
    /\ status = IRSDK_ST_CONNECTED /\ g_is_initialized
    /\ g_last_valid_time # 0
    /\ now - g_last_valid_time >= TIMEOUT_SECONDS

\* C20: irsdk_var_name_to_index returns the lowest index whose name field
\* equals the name over its IRSDK_MAX_STRING characters, -1 when there is
\* none, the name is NULL or the handle is not ready; irsdk_var_name_to_offset
\* returns the offset field of that header, -1 in the same cases.
C20_LookupFindsFirstMatch ==
    /\ ridx # -2 => ridx = ExpectedIndex
    /\ roff # -2
          => roff = IF ExpectedIndex = -1
                    THEN -1
                    ELSE varHeaders[ExpectedIndex + 1].offset

\* C20 happens: the name is in two headers with different offsets, not in the
\* first header of the table, and the lookup returned the offset of the first
\* of the two.
C20_Witness ==
    /\ qname # NULL /\ g_is_initialized
    /\ ExpectedIndex = 1
    /\ \E j \in 3 .. Len(varHeaders) :
          /\ NameMatches(qname[1], j - 1)
          /\ varHeaders[j].offset # varHeaders[2].offset
    /\ roff = varHeaders[2].offset

-----------------------------------------------------------------------------
\* Vocabulary of the metadata properties: the tree a text's lines spell.

Depth(ln) == ln.ind + (IF ln.dash THEN 2 ELSE 0)
Blank(ln) == ln.key = << >>

\* The positions in the text of the first character of line k, of its value,
\* and of the character that ends it.
LineStart(doc, k) == Len(Render(doc, k - 1)) + 1
ValStart(doc, k) == LineStart(doc, k) + Depth(doc[k]) + Len(doc[k].key) + 2
LineEnd(doc, k) == LineStart(doc, k + 1) - Len(doc[k].eol)

\* The line position pos of the text lies on.
LineAt(doc, pos) ==
    CHOOSE k \in 1 .. Len(doc) :
        LineStart(doc, k) <= pos /\ pos < LineStart(doc, k + 1)

\* The least element of a set of line numbers, 0 when it is empty.
First(S) == IF S = {} THEN 0 ELSE CHOOSE k \in S : \A j \in S : k <= j

\* Line c is a child of line a (a = 0: line c is at the top level).
Child(doc, a, c) ==
    /\ c \in 1 .. Len(doc) /\ a < c /\ ~Blank(doc[c])
    /\ IF a = 0 THEN Depth(doc[c]) = 0
       ELSE /\ Depth(doc[c]) > Depth(doc[a])
            /\ \A j \in (a + 1) .. (c - 1) :
                  Blank(doc[j]) \/ Depth(doc[j]) >= Depth(doc[c])

\* The line the first n segments of segs name: the first top-level line with
\* the first key, then at every level the first child with the next key; 0
\* when there is none.
RECURSIVE Follow(_, _, _)
Follow(doc, segs, n) ==
    IF n = 0 THEN 0
    ELSE LET a == IF n = 1 THEN 0 ELSE Follow(doc, segs, n - 1)
         IN  IF n > 1 /\ a = 0 THEN 0
             ELSE First({c \in 1 .. Len(doc) :
                            Child(doc, a, c) /\ doc[c].key = segs[n]})

\* The first line after line a that is not blank and not deeper than line a;
\* 0 when a's subtree runs to the end of the text.
SubtreeEnd(doc, a) ==
    First({m \in (a + 1) .. Len(doc) :
              ~Blank(doc[m]) /\ Depth(doc[m]) <= Depth(doc[a])})

\* The first element of the list under line lst whose selector line is
\* "- sel: lit", and the first line with the key in that element; 0 when there
\* is none.
Selected(doc, lst, sel, lit) ==
    First({e \in 1 .. Len(doc) :
              /\ Child(doc, lst, e) /\ doc[e].dash
              /\ doc[e].key = sel /\ doc[e].val = lit})

InElement(doc, lst, e, key) ==
    First({k \in e .. Len(doc) :
              /\ Child(doc, lst, k) /\ doc[k].key = key
              /\ \A j \in (e + 1) .. k : ~doc[j].dash})

\* The query made was yaml_parse of a text with this path.
Parsed(path) == ycall = "parse" /\ yaml # NULL /\ ypath = Ptr(path)

\* yaml_parse returned the value of line k.
Returned(k) ==
    /\ yout.found
    /\ yout.val = ValStart(ydoc, k)
    /\ yout.len = Len(ydoc[k].val)

-----------------------------------------------------------------------------
\* C21: for a text with a top-level key A and a child line "B: v", yaml_parse
\* with the path "A:B" returns found with the span of exactly v (scenario 3:
\* "WeekendInfo:TrackName" yields "Texas").
C21_ColonPathFindsChild ==
    \A q \in SegPaths :
        (/\ Len(q) = 2
         /\ Parsed(SpecPath(q))
         /\ Follow(ydoc, q, 2) # 0
         /\ ydoc[Follow(ydoc, q, 2)].val # << >>)
           => Returned(Follow(ydoc, q, 2))

\* C22: an array-selection path returns the value of the requested key from
\* the list element whose selector value equals the literal, never a value of
\* another element (also when the selected element lacks the key and a later
\* element has it), and not found when no element's selector equals the
\* literal.
C22_SelectsMatchingElement ==
    \A lit \in SelLiterals :
        (\/ Parsed(SpecSelPath(Drivers, lit, UserName))
         \/ Parsed(SelPath(Drivers, CarIdx, lit, UserName))
         \/ Parsed(SelPath(Drivers, CarIdx, lit, UserName) \o <<":">>))
           => LET lst == Follow(ydoc, <<Drivers>>, 1)
                  e == Selected(ydoc, lst, CarIdx, lit)
                  k == IF e = 0 THEN 0 ELSE InElement(ydoc, lst, e, UserName)
              IN  lst # 0 => IF k # 0 THEN Returned(k) ELSE ~yout.found

\* C23: after a segment that is not the last was matched on a line, the next
\* segment is matched only by a child of that line: yaml_parse never returns
\* the value of a sibling of the matched line, nor of a key nested under
\* another key of its subtree.
C23_NextSegmentInsideSubtree ==
    \A q \in SegPaths :
        (/\ Len(q) >= 2
         /\ Parsed(SpecPath(q)) \/ Parsed(ColonPath(q))
         /\ yout.found)
           => LET a == Follow(ydoc, q, Len(q) - 1)
                  r == LineAt(ydoc, yout.stop)
              IN  /\ a # 0
                  /\ Child(ydoc, a, r)
                  /\ ydoc[r].key = q[Len(q)]

\* C24: once the segments before the last have matched and the text leaves
\* the subtree of the line they matched (a later line that is not blank is no
\* deeper than that line) without a child matching the last segment,
\* yaml_parse returns not found at that line: it examines no line after it.
C24_StopsAtDepthViolation ==
    \A q \in SegPaths :
        (/\ Len(q) >= 2
         /\ Parsed(SpecPath(q)) \/ Parsed(ColonPath(q))
         /\ Follow(ydoc, q, Len(q) - 1) # 0
         /\ Follow(ydoc, q, Len(q)) = 0
         /\ SubtreeEnd(ydoc, Follow(ydoc, q, Len(q) - 1)) # 0)
           => /\ ~yout.found
              /\ yout.stop
                   = LineEnd(ydoc,
                             SubtreeEnd(ydoc, Follow(ydoc, q, Len(q) - 1)))

\* C25: when yaml_parse does not find the path, or finds an empty value,
\* yaml_parse_string leaves the empty string in the buffer, yaml_parse_int,
\* yaml_parse_float and yaml_parse_double leave 0 in the output, and each
\* returns false; when the value is found, yaml_parse_string returns true
\* with the first min(len, buf_size - 1) characters of the value in the
\* buffer and a NUL after them, inside the buffer.
C25_WrappersDefaultOnNotFound ==
    LET r == yaml_parse(yaml, ypath)
        missing == ~r.found \/ r.len = 0
    IN  /\ (ycall = "string" /\ yout.buf_size > 0)
              => IF missing
                 THEN ~yout.ret /\ yout.buf[1][1] = NUL
                 ELSE LET n == IF r.len < yout.buf_size - 1
                               THEN r.len ELSE yout.buf_size - 1
                      IN  /\ yout.ret
                          /\ n + 1 <= yout.buf_size
                          /\ yout.buf[1][n + 1] = NUL
                          /\ \A k \in 1 .. n :
                                /\ yout.buf[1][k] = yaml[1][r.val + k - 1]
                                /\ yout.buf[1][k] # NUL
        /\ ycall = "int"
              => IF missing THEN ~yout.ret /\ yout.value = 0 ELSE yout.ret
        /\ ycall \in {"float", "double"}
              => IF missing THEN ~yout.ret /\ yout.value = ZeroFloat
                 ELSE yout.ret

\* C25 happens: yaml_parse_string found a value longer than the buffer has
\* room for, and stored its first buf_size - 1 characters.
C25_Witness ==
    /\ ycall = "string" /\ yout.ret
    /\ yout.buf_size = 3
    /\ yaml_parse(yaml, ypath).len = 5
    /\ yout.buf[1] = <<"a", "b", NUL>>

-----------------------------------------------------------------------------
\* C26: no operation of the reader writes the shared region or the producer's
\* state, and the reader holds nothing the producer waits on: in every state
\* the reader can be in, every producer step whose own condition holds (a
\* condition on the region and on the producer's position alone) is enabled.
C26_ReaderNeverBlocksProducer ==
    /\ [][(Startup \/ Shutdown \/ PollCall \/ WaitCall \/ WaitWake \/ Poll)
            => UNCHANGED <<shared, varHeaders, prod>>]_vars
    /\ [](Alive =>
            /\ (ProducerIdle /\ status = IRSDK_ST_CONNECTED
                  /\ pcount < MaxTick) => ENABLED ProducerBegin
            /\ pw < BufLen => ENABLED ProducerWriteWord
            /\ ~ptw => ENABLED ProducerWriteTick
            /\ status = 0 => ENABLED ProducerConnect
            /\ status = IRSDK_ST_CONNECTED => ENABLED ProducerDisconnect
            /\ (ProducerIdle /\ pcount > 0) => ENABLED ProducerRestart)

\* C26 happens: the reader is in the middle of copying the buffer the producer
\* is in the middle of writing, and the producer's next write is enabled.
C26_Witness ==
    /\ pc = "copy" /\ cidx > 1
    /\ latest = SlotOf(pcount)
    /\ pw > 0 /\ pw < BufLen
    /\ ENABLED ProducerWriteWord

\* C28: a poll writes the destination buffer only in a call that returns
\* true: when irsdk_get_new_data(data) returns false, data holds what it held
\* when the call was made.
C28_FalsePollLeavesDestination ==
    [][(PollDone /\ wpc = "none" /\ ret' = "false") => data' = Frame(0)]_vars

\* C29: a poll made while the marker is INT_MAX never returns true: it returns
\* false from the disconnect branch with the marker still INT_MAX, or, the
\* connected bit set, it only sets the marker to the latest tick_count; and
\* a poll goes on to report a frame only when the marker is a tick_count below
\* the latest one, so the first frame after a start is reported by the second
\* poll at the earliest, and only if the tick_count advanced.
C29_UnknownMarkerOnlyPrimes ==
    [][/\ (PollDone /\ g_last_tick_count = INT_MAX)
            => /\ ret' = "false"
               /\ branch' \in {"disconnect", "regress_unknown"}
               /\ branch' = "disconnect" => g_last_tick_count' = INT_MAX
               /\ branch' = "regress_unknown"
                     => g_last_tick_count' = tick[latest]
       /\ (pc = "cmp" /\ pc' \in {"readtick", "accept"})
            => /\ g_last_tick_count # INT_MAX
               /\ g_last_tick_count < tick[latest]
       /\ (PollDone /\ ret' = "true")
            => /\ pc \in {"verify", "accept"}
               /\ g_last_tick_count # INT_MAX]_vars

\* C29 happens: a poll found the marker INT_MAX and the connected bit set,
\* returned false and left the latest tick_count in the marker.
C29_Witness ==
    /\ pc = "idle" /\ ret = "false" /\ branch = "regress_unknown"
    /\ g_last_tick_count # INT_MAX
    /\ \E i \in Slots : g_last_tick_count = tick[i]

\* C30: every copy into the session loop's frame buffer fits it: the length
\* the poll's memcpy is called with (the header's buf_len as the copy begins)
\* is at most the size the buffer was allocated with, also after the producer
\* restarted or came back with another buf_len.
C30_CopyFitsBuffer ==
    (mpc # "free" /\ clen > 0) => clen <= data_size

\* C27: once the shutdown flag is set (g_running is false) main begins no
\* further wait after the one it may be in, and enters no new state: from then
\* on current_state keeps its value until the program has terminated.
C27_CancellationEffective ==
    [][~g_running => /\ ~(wpc = "none" /\ wpc' # "none")
                     /\ current_state' = current_state]_vars

=============================================================================
